---- MODULE Spec2Model ----
(***************************************************************************)
(* Model of the caption-synchronized video assembly engine of              *)
(* video-automator: caption segmentation (caption_generator.py), the       *)
(* Whisper device fallback (whisper_handler.py) and the batch renderer     *)
(* with its per-job pipeline (batch_renderer.py, ffmpeg_builder.py), and   *)
(* the construction of the encoder command: effect plan and crop            *)
(* validation (motion_effects.py), subtitle style (subtitle_style.py) and  *)
(* the command itself (ffmpeg_builder.py).                                  *)
(*                                                                         *)
(* Times and the other floats of the source are IEEE-754 binary64 values,   *)
(* computed with the rounding of every operation.                          *)
(***************************************************************************)
EXTENDS Integers, Sequences, FiniteSets

VARIABLES
    \* ---- CaptionGenerator.split_into_shorter_segments ----
    captions,      \* the input list of caption dicts
    max_words,     \* argument max_words
    max_chars,     \* argument max_chars
    result,        \* the returned list
    splitPc,       \* "input" before the call, "done" after it returned;
                   \* when the call is followed step by step, "caption" at
                   \* the head of the loop over captions and "word" at the
                   \* head of the loop over words
    split_locals,  \* the locals of the call: caption and word are the
                   \* positions of the two loops, chunks, current_chunk
                   \* and current_length the locals of these names
    \* ---- CaptionGenerator.wrap_caption_text ----
    wrap_text,     \* argument text
    max_line_chars,\* argument max_line_chars
    wrapped,       \* the returned text, as its lines
    wrapPc,        \* "idle", "input" before the call, "done" after it
    \* ---- BatchRenderer / VideoProcessor / WhisperHandler ----
    video_folders, \* argument of process_queue: the folders, in order
    max_workers,   \* BatchRenderer.max_workers = len(self.processors)
    cuda_available,\* torch.cuda.is_available()
    model,         \* per processor: WhisperHandler.model ("None", "cuda", "cpu")
    device,        \* per processor: WhisperHandler.device
    failed_gpu,    \* per processor: WhisperHandler.failed_gpu
    pc,            \* per thread: position in assemble_video / transcribe
    ret,           \* per thread: where the running load_model returns to
    inferOn,       \* per thread: device of the model object running inference
    has_callback,  \* per job: progress_callbacks.get(folder) is not None
    duration,      \* per job: get_audio_duration(...), whole seconds
    last_update_progress, \* per job: local of assemble_video
    progress,      \* per job: local of assemble_video, the last parsed value
    linesRead,     \* per job: lines of process.stderr consumed
    returncode,    \* per job: process.returncode (-1 while running)
    job_result,    \* per job: the (success, output_path) returned
    srt,           \* per folder: temp_captions.srt exists
    results,       \* process_queue: the list collected from as_completed
    returned,      \* process_queue has returned
    \* ---- history of the run, for stating the properties ----
    reported,      \* per job: last value given to the callback (-1: none)
    reports,       \* per job: number of callback invocations
    starts,        \* per job: times assemble_video was started
    gpuAttempts,   \* per thread: cuda inference attempts of the current call
    cpuAttempts,   \* per thread: cpu inference attempts of the current call
    lastFail,      \* per thread: device of the last failed inference
    cpuFailed,     \* per thread: a cpu load or inference of this call failed
    gpuFailedEver, \* per processor: a cuda load or inference has failed
    \* ---- FFmpegCommandBuilder.build_command and what it calls ----
    settings,      \* the settings dict: [keys, and one field per key]
    files,         \* argument files: [images, voiceover]
    use_gpu,       \* argument use_gpu
    gpu_available, \* check_gpu_available() at its first and second call
    grain_exists,  \* os.path.exists(grain_video_path)
    total_duration,\* argument duration, whole seconds
    subtitle_style,\* the style SubtitleStyleBuilder.build returned
    cmd,           \* the command build_command returned
    \* ---- MotionEffectBuilder._build_base_filter ----
    crop_settings, \* argument crop_settings
    image_size,    \* img.size of the image at image_path
    base_filter,   \* the returned filter fragment
    buildPc        \* "idle", "input" before a call, "inputs" in
                   \* build_command after line 93, "done" after the call

wrapVars == <<wrap_text, max_line_chars, wrapped, wrapPc>>
splitVars == <<captions, max_words, max_chars, result, splitPc, split_locals,
               wrapVars>>
handlerVars == <<cuda_available, model, device, failed_gpu>>
threadVars == <<pc, ret, inferOn>>
jobVars == <<has_callback, duration, last_update_progress, progress, linesRead,
             returncode, job_result, srt>>
batchVars == <<video_folders, max_workers, results, returned>>
historyVars == <<reported, reports, starts, gpuAttempts, cpuAttempts,
                 lastFail, cpuFailed, gpuFailedEver>>
renderVars == <<handlerVars, threadVars, jobVars, batchVars, historyVars>>
buildVars == <<settings, files, use_gpu, gpu_available, grain_exists,
               total_duration, subtitle_style, cmd, crop_settings, image_size,
               base_filter, buildPc>>
vars == <<splitVars, renderVars, buildVars>>

----------------------------------------------------------------------------
\* Bounds of the segmentation inputs
MaxSegWords == 3
MaxWordLen == 5
MaxLimitWords == 3
MaxLimitChars == 8
MaxTime == 2
MaxCaptions == 2

----------------------------------------------------------------------------
\* Python floats are IEEE-754 binary64: every arithmetic result is the exact
\* result rounded to 53 significant bits, ties to even.  The significands
\* do not fit the integers of the model checker, so a natural number is
\* kept as the sequence of its digits in base BnBase, lowest digit first and
\* without leading zero digits (zero is <<>>).

BnBase == 2^15

RECURSIVE BnFromInt(_)
BnFromInt(n) ==
    IF n = 0 THEN <<>> ELSE <<n % BnBase>> \o BnFromInt(n \div BnBase)

RECURSIVE BnToInt(_)
BnToInt(a) == IF a = <<>> THEN 0 ELSE a[1] + BnBase * BnToInt(Tail(a))

\* digit d in front of the higher digits hi, without a leading zero
BnCons(d, hi) == IF d = 0 /\ hi = <<>> THEN <<>> ELSE <<d>> \o hi

\* a * k + carry, for 0 <= k < BnBase
RECURSIVE BnMulSmall(_, _, _)
BnMulSmall(a, k, carry) ==
    IF a = <<>> THEN BnFromInt(carry)
    ELSE LET t == a[1] * k + carry
         IN  BnCons(t % BnBase, BnMulSmall(Tail(a), k, t \div BnBase))

\* quotient and remainder of a by b, for 0 < b < BnBase
RECURSIVE BnDivRem(_, _)
BnDivRem(a, b) ==
    IF a = <<>> THEN [q |-> <<>>, r |-> 0]
    ELSE LET hi == BnDivRem(Tail(a), b)
             t == hi.r * BnBase + a[1]
         IN  [q |-> BnCons(t \div b, hi.q), r |-> t % b]

RECURSIVE BnAdd(_, _, _)
BnAdd(a, b, carry) ==
    IF a = <<>> /\ b = <<>> THEN BnFromInt(carry)
    ELSE LET x == IF a = <<>> THEN 0 ELSE a[1]
             y == IF b = <<>> THEN 0 ELSE b[1]
             t == x + y + carry
         IN  BnCons(t % BnBase,
                    BnAdd(IF a = <<>> THEN <<>> ELSE Tail(a),
                          IF b = <<>> THEN <<>> ELSE Tail(b),
                          t \div BnBase))

\* a - b - borrow, for a >= b + borrow
RECURSIVE BnSub(_, _, _)
BnSub(a, b, borrow) ==
    IF a = <<>> THEN <<>>
    ELSE LET y == IF b = <<>> THEN 0 ELSE b[1]
             t == a[1] - y - borrow
         IN  BnCons(IF t < 0 THEN t + BnBase ELSE t,
                    BnSub(Tail(a), IF b = <<>> THEN <<>> ELSE Tail(b),
                          IF t < 0 THEN 1 ELSE 0))

\* -1, 0 or 1 as a < b, a = b or a > b
RECURSIVE BnCmp(_, _)
BnCmp(a, b) ==
    IF Len(a) # Len(b) THEN (IF Len(a) < Len(b) THEN -1 ELSE 1)
    ELSE IF a = <<>> THEN 0
    ELSE LET hi == BnCmp(Tail(a), Tail(b))
         IN  IF hi # 0 THEN hi
             ELSE IF a[1] < b[1] THEN -1
             ELSE IF a[1] > b[1] THEN 1 ELSE 0

RECURSIVE BitsOf(_)
BitsOf(d) == IF d = 0 THEN 0 ELSE 1 + BitsOf(d \div 2)

\* the number of bits of a
BnBitLen(a) ==
    IF a = <<>> THEN 0 ELSE 15 * (Len(a) - 1) + BitsOf(a[Len(a)])

\* a * 2^t
BnShl(a, t) ==
    IF a = <<>> THEN <<>>
    ELSE [i \in 1..(t \div 15) |-> 0] \o BnMulSmall(a, 2^(t % 15), 0)

\* a \div 2^t
BnShr(a, t) ==
    IF t \div 15 >= Len(a) THEN <<>>
    ELSE BnDivRem(SubSeq(a, (t \div 15) + 1, Len(a)), 2^(t % 15)).q

\* the number of zero bits at the low end of a # 0
RECURSIVE LowZeros(_)
LowZeros(d) == IF d % 2 = 1 THEN 0 ELSE 1 + LowZeros(d \div 2)

RECURSIVE BnLowZeros(_)
BnLowZeros(a) ==
    IF a[1] = 0 THEN 15 + BnLowZeros(Tail(a)) ELSE LowZeros(a[1])

\* A float is sign * man * 2^exp with man odd, or zero
FZero == [sign |-> 1, man |-> <<>>, exp |-> 0]

\* the float of the exact value sign * m * 2^e when it needs no rounding
Canon(sign, m, e) ==
    IF m = <<>> THEN FZero
    ELSE LET z == BnLowZeros(m)
         IN  [sign |-> sign, man |-> BnShr(m, z), exp |-> e + z]

\* the significand of a binary64
MantissaBits == 53

\* sign * m * 2^e rounded to the nearest float, ties to even
RoundNearestEven(sign, m, e) ==
    IF BnBitLen(m) <= MantissaBits THEN Canon(sign, m, e)
    ELSE LET t == BnBitLen(m) - MantissaBits
             q == BnShr(m, t)
             rest == BnSub(m, BnShl(q, t), 0)
             half == BnCmp(rest, BnShl(<<1>>, t - 1))
             up == half > 0 \/ (half = 0 /\ q[1] % 2 = 1)
         IN  Canon(sign, IF up THEN BnAdd(q, <<1>>, 0) ELSE q, e + t)

\* float(n) of an int n
FInt(n) == Canon(IF n < 0 THEN -1 ELSE 1, BnFromInt(IF n < 0 THEN -n ELSE n), 0)

FNeg(x) == IF x.man = <<>> THEN x ELSE [x EXCEPT !.sign = -x.sign]

\* the exact sum of two floats, as [sign, man, exp] before rounding
ExactSum(x, y) ==
    LET e == IF x.exp <= y.exp THEN x.exp ELSE y.exp
        mx == BnShl(x.man, x.exp - e)
        my == BnShl(y.man, y.exp - e)
        c == BnCmp(mx, my)
    IN  IF x.sign = y.sign
        THEN [sign |-> x.sign, man |-> BnAdd(mx, my, 0), exp |-> e]
        ELSE IF c >= 0
        THEN [sign |-> x.sign, man |-> BnSub(mx, my, 0), exp |-> e]
        ELSE [sign |-> y.sign, man |-> BnSub(my, mx, 0), exp |-> e]

\* x + y
FAdd(x, y) ==
    LET s == ExactSum(x, y) IN RoundNearestEven(s.sign, s.man, s.exp)

\* x - y
FSub(x, y) == FAdd(x, FNeg(y))

\* x < y
FLess(x, y) ==
    LET s == ExactSum(x, FNeg(y)) IN s.man # <<>> /\ s.sign = -1

\* x * k for an int k, 0 <= k < BnBase
FMulInt(x, k) == RoundNearestEven(x.sign, BnMulSmall(x.man, k, 0), x.exp)

\* x / b for an int b, 0 < b < BnBase: the quotient to 72 more bits than x,
\* with one more bit that is set when the division left a remainder
FDivInt(x, b) ==
    LET d == BnDivRem(BnShl(x.man, 72), b)
        q == BnAdd(BnShl(d.q, 1), IF d.r = 0 THEN <<>> ELSE <<1>>, 0)
    IN  RoundNearestEven(x.sign, q, x.exp - 73)

\* the float nearest to n / d: the value of a decimal literal
FRatio(n, d) == FDivInt(FInt(n), d)

\* int(x): x truncated toward zero
FTrunc(x) ==
    IF x.exp >= 0 THEN x.sign * BnToInt(BnShl(x.man, x.exp))
    ELSE x.sign * BnToInt(BnShr(x.man, -x.exp))

Max(a, b) == IF a >= b THEN a ELSE b
Min(a, b) == IF a <= b THEN a ELSE b

----------------------------------------------------------------------------
\* A word is [id, len, punct]: its position in the segment, len(word) and
\* word.endswith((',', '.', '!', '?', ';', ':')).
\* A text is [words, extra]: text.split() and the number of whitespace
\* characters of text.strip() beyond one space between consecutive words.

RECURSIVE SumLen(_)
SumLen(ws) == IF ws = <<>> THEN 0 ELSE Head(ws).len + SumLen(Tail(ws))

\* len(' '.join(ws))
JoinLen(ws) == IF ws = <<>> THEN 0 ELSE SumLen(ws) + Len(ws) - 1

\* ' '.join(ws)
JoinText(ws) == [words |-> ws, extra |-> 0]

\* len(caption['text'].strip())
TextLen(text) == JoinLen(text.words) + text.extra

\* caption_generator.py:126
FitsNicely(caption, mw, mc) ==
    Len(caption.text.words) <= mw /\ TextLen(caption.text) <= mc

ShouldBreakNever(current_chunk, current_length, word, mw, mc) == FALSE

ShouldBreakCharsIgnored(current_chunk, current_length, word, mw, mc) ==
    LET would_exceed_words == Len(current_chunk) >= mw
        is_natural_break == word.punct
        near_word_limit == Len(current_chunk) >= (mw \div 2)
    IN  would_exceed_words \/ (is_natural_break /\ near_word_limit)

\* caption_generator.py:140-152
ShouldBreak(current_chunk, current_length, word, mw, mc) ==
    LET would_exceed_words == Len(current_chunk) >= mw
        would_exceed_chars == (current_length + word.len + 1) > mc
        is_natural_break == word.punct
        near_word_limit == Len(current_chunk) >= (mw \div 2)
    IN  would_exceed_words \/ would_exceed_chars
            \/ (is_natural_break /\ near_word_limit)

LastChunkDropped(chunks, current_chunk) == chunks

\* caption_generator.py:169-172
LastChunk(chunks, current_chunk) ==
    IF current_chunk # <<>> THEN Append(chunks, JoinText(current_chunk))
    ELSE chunks

\* caption_generator.py:136-172, the loop over words from index i on
RECURSIVE BuildChunks(_, _, _, _, _, _, _)
BuildChunks(words, i, chunks, current_chunk, current_length, mw, mc) ==
    IF i > Len(words) THEN LastChunk(chunks, current_chunk)
    ELSE
        LET word == words[i]
            flush == ShouldBreak(current_chunk, current_length, word, mw, mc)
                        /\ current_chunk # <<>>
            chunks1 == IF flush THEN Append(chunks, JoinText(current_chunk))
                       ELSE chunks
            chunk1 == IF flush THEN <<>> ELSE current_chunk
            length1 == IF flush THEN 0 ELSE current_length
        IN  BuildChunks(words, i + 1, chunks1, Append(chunk1, word),
                        length1 + word.len + 1, mw, mc)

\* caption_generator.py:181-189, chunk i (0-based) of num_chunks
TimedChunk(caption, chunk, i, num_chunks) ==
    LET seg_duration == FSub(caption.end, caption.start)
        time_per_chunk == FDivInt(seg_duration, num_chunks)
    IN  [start |-> FAdd(caption.start, FMulInt(time_per_chunk, i)),
         end   |-> FAdd(caption.start, FMulInt(time_per_chunk, i + 1)),
         text  |-> chunk]

\* caption_generator.py:121-189, the body of the loop for one caption
SplitCaption(caption, mw, mc) ==
    IF FitsNicely(caption, mw, mc) THEN <<caption>>
    ELSE
        LET chunks == BuildChunks(caption.text.words, 1, <<>>, <<>>, 0, mw, mc)
        IN  IF chunks = <<>> THEN <<caption>>
            ELSE [k \in 1..Len(chunks) |->
                     TimedChunk(caption, chunks[k], k - 1, Len(chunks))]

\* caption_generator.py:100-194
RECURSIVE split_into_shorter_segments(_, _, _)
split_into_shorter_segments(caps, mw, mc) ==
    IF caps = <<>> THEN <<>>
    ELSE SplitCaption(Head(caps), mw, mc)
            \o split_into_shorter_segments(Tail(caps), mw, mc)

----------------------------------------------------------------------------
\* Inputs of the segmentation: words of one character or MaxWordLen
\* characters, with or without final punctuation; texts with single spaces
\* or with one doubled space; whole-numbered times start < end
WordShapes == [len : {1, MaxWordLen}, punct : BOOLEAN]

WordSeqs ==
    UNION { { [k \in 1..n |-> [id |-> k, len |-> f[k].len, punct |-> f[k].punct]]
                : f \in [1..n -> WordShapes] } : n \in 0..MaxSegWords }

Texts ==
    { [words |-> ws, extra |-> e] :
        ws \in WordSeqs, e \in 0..1 }

CaptionInputs ==
    { [start |-> FInt(s), end |-> FInt(e), text |-> t] :
        s \in 0..(MaxTime - 1), e \in 1..MaxTime,
        t \in { x \in Texts : x.extra > 0 => Len(x.words) >= 2 } }

WrapIdle ==
    /\ wrap_text = JoinText(<<>>) /\ max_line_chars = 0
    /\ wrapped = <<>> /\ wrapPc = "idle"

\* caption_generator.py:131-134, the locals before the first word
NoChunks ==
    [caption |-> 1, word |-> 1, chunks |-> <<>>, current_chunk |-> <<>>,
     current_length |-> 0]

SplitInit ==
    /\ WrapIdle
    /\ split_locals = NoChunks
    /\ captions \in { <<c>> : c \in { x \in CaptionInputs :
                                          FLess(x.start, x.end) } }
    /\ max_words \in 0..MaxLimitWords
    /\ max_chars \in 0..MaxLimitChars
    /\ result = <<>>
    /\ splitPc = "input"

\* One call of CaptionGenerator.split_into_shorter_segments
Split ==
    /\ splitPc = "input"
    /\ result' = split_into_shorter_segments(captions, max_words, max_chars)
    /\ splitPc' = "done"
    /\ UNCHANGED <<captions, max_words, max_chars, split_locals, wrapVars>>

\* The same call, one iteration of its loops at a time.

\* A caption that lasts from 0 to 1
UnitStart == FInt(0)
UnitEnd == FInt(1)
UnitCaption(text) == [start |-> UnitStart, end |-> UnitEnd, text |-> text]

\* TimedChunk for the captions that last from 0 to 1: the times of chunk i
\* of n, computed once
UnitTimes ==
    [n \in 1..MaxSegWords |->
        [i \in 0..(n - 1) |->
            TimedChunk(UnitCaption(JoinText(<<>>)), JoinText(<<>>), i, n)]]

\* caption_generator.py:181-189, with the times of a caption from 0 to 1
\* read from UnitTimes
TimedChunkOf(caption, chunk, i, num_chunks) ==
    IF caption.start = UnitStart /\ caption.end = UnitEnd
    THEN [UnitTimes[num_chunks][i] EXCEPT !.text = chunk]
    ELSE TimedChunk(caption, chunk, i, num_chunks)

\* caption_generator.py:120-134: the next caption is appended as it is when
\* it fits, and otherwise the loop over its words begins
ForCaption ==
    /\ splitPc = "caption"
    /\ split_locals.caption <= Len(captions)
    /\ LET caption == captions[split_locals.caption]
       IN  IF FitsNicely(caption, max_words, max_chars)
           THEN /\ result' = Append(result, caption)
                /\ split_locals' =
                       [NoChunks EXCEPT !.caption = split_locals.caption + 1]
                /\ splitPc' = "caption"
           ELSE /\ result' = result
                /\ split_locals' =
                       [NoChunks EXCEPT !.caption = split_locals.caption]
                /\ splitPc' = "word"
    /\ UNCHANGED <<captions, max_words, max_chars, wrapVars>>

\* caption_generator.py:136-165: one iteration of the loop over words
ForWord ==
    /\ splitPc = "word"
    /\ LET words == captions[split_locals.caption].text.words
           word == words[split_locals.word]
           flush == ShouldBreak(split_locals.current_chunk,
                                split_locals.current_length, word,
                                max_words, max_chars)
                       /\ split_locals.current_chunk # <<>>
           chunks1 == IF flush
                      THEN Append(split_locals.chunks,
                                  JoinText(split_locals.current_chunk))
                      ELSE split_locals.chunks
           chunk1 == IF flush THEN <<>> ELSE split_locals.current_chunk
           length1 == IF flush THEN 0 ELSE split_locals.current_length
       IN  /\ split_locals.word <= Len(words)
           /\ split_locals' =
                  [split_locals EXCEPT !.word = @ + 1,
                                       !.chunks = chunks1,
                                       !.current_chunk = Append(chunk1, word),
                                       !.current_length = length1 + word.len + 1]
    /\ UNCHANGED <<captions, max_words, max_chars, result, splitPc, wrapVars>>

\* caption_generator.py:168-189: the words are exhausted; the remainder is
\* flushed and the chunks are appended with their times, or the caption
\* itself when there is no chunk
AfterWords ==
    /\ splitPc = "word"
    /\ LET caption == captions[split_locals.caption]
           chunks == LastChunk(split_locals.chunks,
                               split_locals.current_chunk)
       IN  /\ split_locals.word > Len(caption.text.words)
           /\ result' =
                  IF chunks = <<>> THEN Append(result, caption)
                  ELSE result \o [k \in 1..Len(chunks) |->
                                     TimedChunkOf(caption, chunks[k], k - 1,
                                                  Len(chunks))]
    /\ split_locals' = [NoChunks EXCEPT !.caption = split_locals.caption + 1]
    /\ splitPc' = "caption"
    /\ UNCHANGED <<captions, max_words, max_chars, wrapVars>>

\* caption_generator.py:194: the loop over captions is exhausted
SplitReturn ==
    /\ splitPc = "caption"
    /\ split_locals.caption > Len(captions)
    /\ splitPc' = "done"
    /\ UNCHANGED <<captions, max_words, max_chars, result, split_locals,
                   wrapVars>>

----------------------------------------------------------------------------
\* CaptionGenerator.wrap_caption_text (caption_generator.py:54-97). The
\* returned string is the sequence of its lines: <<text>> when the text is
\* returned as it came, <<line1, line2>> for f"{line1}\\n{line2}".

\* target_break = len(text) * 2 (a break point past the end of the text)
TargetBreakDoubled(text) == TextLen(text) * 2

\* target_break = len(text) // 2 (caption_generator.py:76)
TargetBreak(text) == TextLen(text) \div 2

\* The loop of caption_generator.py:82-95 from word i on; <<>> when the loop
\* ends without a break
RECURSIVE WrapLoop(_, _, _, _, _)
WrapLoop(words, i, current_line, current_length, target_break) ==
    IF i > Len(words) THEN <<>>
    ELSE IF current_length + words[i].len > target_break
            /\ current_line # <<>>
         THEN <<JoinText(current_line),
                JoinText(SubSeq(words, i, Len(words)))>>
         ELSE WrapLoop(words, i + 1, Append(current_line, words[i]),
                       current_length + words[i].len + 1, target_break)

wrap_caption_text(text, limit) ==
    IF TextLen(text) <= limit THEN <<text>>
    ELSE IF Len(text.words) <= 1 THEN <<text>>
    ELSE LET lines == WrapLoop(text.words, 1, <<>>, 0, TargetBreak(text))
         IN  IF lines = <<>> THEN <<text>> ELSE lines

\* The texts handed to wrap_caption_text, and the line widths
WrapInit ==
    /\ wrap_text \in { x \in Texts : x.extra > 0 => Len(x.words) >= 2 }
    /\ max_line_chars \in 0..MaxLimitChars
    /\ wrapped = <<>>
    /\ wrapPc = "input"

\* One call of CaptionGenerator.wrap_caption_text (caption_generator.py:226)
Wrap ==
    /\ wrapPc = "input"
    /\ wrapped' = wrap_caption_text(wrap_text, max_line_chars)
    /\ wrapPc' = "done"
    /\ UNCHANGED <<wrap_text, max_line_chars>>

----------------------------------------------------------------------------
\* batch_renderer.py:209, the default of max_workers; the pools of the model
\* have one processor or as many as the default
DefaultMaxWorkers == 2

\* Bounds of the batch
MaxFolders == 3
MaxLines == 2
MaxDuration == 2
MaxFrameMark == 3
MaxTimeMark == 2

Threads == 1..MaxFolders
Processors == 1..DefaultMaxWorkers
Folders == 1..MaxFolders

Jobs == 1..Len(video_folders)

\* batch_renderer.py:255, processor of the i-th folder (threads count from 1)
ProcessorOf(t) == ((t - 1) % max_workers) + 1

----------------------------------------------------------------------------
\* WhisperHandler, one step of thread t on its processor's handler

\* whisper_handler.py:34
UseGpu(h) == cuda_available /\ ~failed_gpu[h]

\* whisper_handler.py:111
CanFallBack(h) == device[h] = "cuda" /\ ~failed_gpu[h]

\* where load_model returns to: the caller's next statement
AfterLoad(t) ==
    CASE ret[t] = "infer"   -> "t_infer"
      [] ret[t] = "recurse" -> "t_entry"
      [] OTHER              -> "l_done"

\* whisper_handler.py:80-81
TEntry(t) ==
    /\ pc[t] = "t_entry"
    /\ IF model[ProcessorOf(t)] = "None"
       THEN /\ pc' = [pc EXCEPT ![t] = "l_check"]
            /\ ret' = [ret EXCEPT ![t] = "infer"]
       ELSE /\ pc' = [pc EXCEPT ![t] = "t_infer"]
            /\ ret' = ret
    /\ UNCHANGED <<splitVars, buildVars, handlerVars, inferOn, jobVars, batchVars,
                   historyVars>>

\* whisper_handler.py:34
LCheck(t) ==
    /\ pc[t] = "l_check"
    /\ pc' = [pc EXCEPT ![t] =
                IF UseGpu(ProcessorOf(t)) THEN "l_gpu" ELSE "l_cpu"]
    /\ UNCHANGED <<splitVars, buildVars, handlerVars, ret, inferOn, jobVars, batchVars,
                   historyVars>>

\* whisper_handler.py:35-52, whisper.load_model(..., device="cuda")
LGpu(t) ==
    /\ pc[t] = "l_gpu"
    /\ \E ok \in BOOLEAN :
         LET h == ProcessorOf(t) IN
         IF ok
         THEN /\ model' = [model EXCEPT ![h] = "cuda"]
              /\ pc' = [pc EXCEPT ![t] = "l_gpu_dev"]
              /\ UNCHANGED <<failed_gpu, gpuFailedEver>>
         ELSE /\ failed_gpu' = [failed_gpu EXCEPT ![h] = TRUE]
              /\ gpuFailedEver' = [gpuFailedEver EXCEPT ![h] = TRUE]
              /\ pc' = [pc EXCEPT ![t] = "l_cpu"]
              /\ UNCHANGED model
    /\ UNCHANGED <<splitVars, buildVars, cuda_available, device, ret, inferOn, jobVars,
                   batchVars, reported, reports, starts, gpuAttempts,
                   cpuAttempts, lastFail, cpuFailed>>

\* whisper_handler.py:46-48
LGpuDev(t) ==
    /\ pc[t] = "l_gpu_dev"
    /\ device' = [device EXCEPT ![ProcessorOf(t)] = "cuda"]
    /\ pc' = [pc EXCEPT ![t] = AfterLoad(t)]
    /\ UNCHANGED <<splitVars, buildVars, cuda_available, model, failed_gpu, ret, inferOn,
                   jobVars, batchVars, historyVars>>

\* whisper_handler.py:54-69, whisper.load_model(..., device="cpu")
LCpu(t) ==
    /\ pc[t] = "l_cpu"
    /\ \E ok \in BOOLEAN :
         IF ok
         THEN /\ model' = [model EXCEPT ![ProcessorOf(t)] = "cpu"]
              /\ pc' = [pc EXCEPT ![t] = "l_cpu_dev"]
              /\ UNCHANGED cpuFailed
         ELSE /\ cpuFailed' = [cpuFailed EXCEPT ![t] = TRUE]
              /\ pc' = [pc EXCEPT ![t] = "t_raise"]
              /\ UNCHANGED model
    /\ UNCHANGED <<splitVars, buildVars, cuda_available, device, failed_gpu, ret, inferOn,
                   jobVars, batchVars, reported, reports, starts, gpuAttempts,
                   cpuAttempts, lastFail, gpuFailedEver>>

\* whisper_handler.py:65-66
LCpuDev(t) ==
    /\ pc[t] = "l_cpu_dev"
    /\ device' = [device EXCEPT ![ProcessorOf(t)] = "cpu"]
    /\ pc' = [pc EXCEPT ![t] = AfterLoad(t)]
    /\ UNCHANGED <<splitVars, buildVars, cuda_available, model, failed_gpu, ret, inferOn,
                   jobVars, batchVars, historyVars>>

\* whisper_handler.py:95, self.model is read and its transcribe is entered;
\* self.model = None raises AttributeError inside the try
TInfer(t) ==
    /\ pc[t] = "t_infer"
    /\ LET m == model[ProcessorOf(t)] IN
       IF m = "None"
       THEN /\ pc' = [pc EXCEPT ![t] = "t_except"]
            /\ UNCHANGED <<inferOn, gpuAttempts, cpuAttempts>>
       ELSE /\ pc' = [pc EXCEPT ![t] = "t_run"]
            /\ inferOn' = [inferOn EXCEPT ![t] = m]
            /\ gpuAttempts' = [gpuAttempts EXCEPT ![t] =
                                  IF m = "cuda" THEN @ + 1 ELSE @]
            /\ cpuAttempts' = [cpuAttempts EXCEPT ![t] =
                                  IF m = "cpu" THEN @ + 1 ELSE @]
    /\ UNCHANGED <<splitVars, buildVars, handlerVars, ret, jobVars, batchVars, reported,
                   reports, starts, lastFail, cpuFailed, gpuFailedEver>>

\* whisper_handler.py:95-109, the inference returns or raises
TRun(t) ==
    /\ pc[t] = "t_run"
    /\ \E ok \in BOOLEAN :
         IF ok
         THEN /\ pc' = [pc EXCEPT ![t] = "t_ok"]
              /\ UNCHANGED <<lastFail, cpuFailed, gpuFailedEver>>
         ELSE /\ pc' = [pc EXCEPT ![t] = "t_except"]
              /\ lastFail' = [lastFail EXCEPT ![t] = inferOn[t]]
              /\ cpuFailed' = [cpuFailed EXCEPT ![t] =
                                  IF inferOn[t] = "cpu" THEN TRUE ELSE @]
              /\ gpuFailedEver' = [gpuFailedEver EXCEPT ![ProcessorOf(t)] =
                                  IF inferOn[t] = "cuda" THEN TRUE ELSE @]
    /\ UNCHANGED <<splitVars, buildVars, handlerVars, ret, inferOn, jobVars, batchVars,
                   reported, reports, starts, gpuAttempts, cpuAttempts>>

\* whisper_handler.py:111, 117-119
TExcept(t) ==
    /\ pc[t] = "t_except"
    /\ pc' = [pc EXCEPT ![t] =
                IF CanFallBack(ProcessorOf(t)) THEN "t_fb_flag" ELSE "t_raise"]
    /\ UNCHANGED <<splitVars, buildVars, handlerVars, ret, inferOn, jobVars, batchVars,
                   historyVars>>

\* whisper_handler.py:113
TFallbackFlag(t) ==
    /\ pc[t] = "t_fb_flag"
    /\ failed_gpu' = [failed_gpu EXCEPT ![ProcessorOf(t)] = TRUE]
    /\ pc' = [pc EXCEPT ![t] = "t_fb_model"]
    /\ UNCHANGED <<splitVars, buildVars, cuda_available, model, device, ret, inferOn,
                   jobVars, batchVars, historyVars>>

\* whisper_handler.py:114-116
TFallbackModel(t) ==
    /\ pc[t] = "t_fb_model"
    /\ model' = [model EXCEPT ![ProcessorOf(t)] = "None"]
    /\ pc' = [pc EXCEPT ![t] = "l_check"]
    /\ ret' = [ret EXCEPT ![t] = "recurse"]
    /\ UNCHANGED <<splitVars, buildVars, cuda_available, device, failed_gpu, inferOn,
                   jobVars, batchVars, historyVars>>

HandlerStep(t) ==
    \/ TEntry(t) \/ LCheck(t) \/ LGpu(t) \/ LGpuDev(t) \/ LCpu(t)
    \/ LCpuDev(t) \/ TInfer(t) \/ TRun(t) \/ TExcept(t)
    \/ TFallbackFlag(t) \/ TFallbackModel(t)

----------------------------------------------------------------------------
\* FFmpegCommandBuilder.parse_progress.  A stderr line is [frame, time]: the
\* number after "frame=" and the seconds after "time=", -1 when absent.

Lines == [frame : {-1} \cup {15 * k : k \in 0..MaxFrameMark},
          time : -1..MaxTimeMark]

\* ffmpeg_builder.py:364-365, 378: division by zero raises ZeroDivisionError
ParseRaises(line, d) == (line.frame >= 0 \/ line.time >= 0) /\ d = 0

\* ffmpeg_builder.py:361-382
parse_progress(line, d) ==
    IF line.frame >= 0
    THEN LET current_frame == line.frame
             total_frames == FTrunc(FMulInt(FInt(d), 30))
             done == FDivInt(FInt(current_frame), total_frames)
         IN  Min(FTrunc(FMulInt(done, 80)), 79) + 20
    ELSE IF line.time >= 0
    THEN LET current_time == FInt(line.time)
         IN  Min(FTrunc(FMulInt(FDivInt(current_time, d), 75)), 75) + 20
    ELSE -1

\* 'time=00:00:11.00' of 15 seconds: (11 / 15) * 75 is 54.99999999999999
\* in floats, so the line gives 74
ParseProgressTruncates ==
    parse_progress([frame |-> -1, time |-> 11], 15) = 74

ShouldReportOrEqual(parsed, last) == parsed >= last

\* batch_renderer.py:173
ShouldReport(parsed, last) == parsed > last

----------------------------------------------------------------------------
\* VideoProcessor.assemble_video, one step of job j

FolderOf(j) == video_folders[j]

\* batch_renderer.py:106-107; the empty path is <<>>
OutputPath(folder) == <<folder, folder>>

\* batch_renderer.py:103, 197, 203
FailureResult(folder) == <<FALSE, <<>> >>

\* batch_renderer.py:191
SuccessResult(folder) == <<TRUE, OutputPath(folder)>>

TempSrtFolderShared(j) == video_folders[1]

\* batch_renderer.py:123, the folder that holds temp_captions.srt of job j
TempSrtFolder(j) == FolderOf(j)

\* A worker thread that is not given back to the pool when its job ends
RunningOrEnded(j) == pc[j] \notin {"idle", "queued"}

\* The job holds a worker thread of the pool (batch_renderer.py:251-256)
Running(j) == pc[j] \notin {"idle", "queued", "complete", "failed"}

ExceptTargetRequeue == "queued"

\* batch_renderer.py:199-203, the job ends with (False, "")
ExceptTarget == "failed"

\* assemble_video returns: its locals go out of scope
LocalsAfterReturn(j) ==
    /\ duration' = [duration EXCEPT ![j] = 0]
    /\ last_update_progress' = [last_update_progress EXCEPT ![j] = 0]
    /\ progress' = [progress EXCEPT ![j] = -1]
    /\ linesRead' = [linesRead EXCEPT ![j] = 0]

\* batch_renderer.py:199-203, an exception ends the job
Fails(j) ==
    /\ pc' = [pc EXCEPT ![j] = ExceptTarget]
    /\ job_result' = [job_result EXCEPT ![j] = FailureResult(FolderOf(j))]
    /\ LocalsAfterReturn(j)

\* transcribe returned or raised: the history of the call is dropped
CallHistoryCleared(j) ==
    /\ ret' = [ret EXCEPT ![j] = "client"]
    /\ inferOn' = [inferOn EXCEPT ![j] = "None"]
    /\ gpuAttempts' = [gpuAttempts EXCEPT ![j] = 0]
    /\ cpuAttempts' = [cpuAttempts EXCEPT ![j] = 0]
    /\ lastFail' = [lastFail EXCEPT ![j] = "None"]
    /\ cpuFailed' = [cpuFailed EXCEPT ![j] = FALSE]

\* progress_callback(value, status) of job j is called and returns (the job
\* goes on at next) or raises (batch_renderer.py:199-203)
Callback(j, value, next) ==
    /\ reported' = [reported EXCEPT ![j] = value]
    /\ reports' = [reports EXCEPT ![j] = @ + 1]
    /\ \E raises \in BOOLEAN :
         IF raises THEN Fails(j)
         ELSE /\ pc' = [pc EXCEPT ![j] = next]
              /\ UNCHANGED <<job_result, duration, last_update_progress,
                             progress, linesRead>>

\* batch_renderer.py:254-256 and 241: a free worker thread takes the next
\* submitted task from the queue of the pool, looks the callback of its
\* folder up and calls assemble_video.  callbacks: whether
\* progress_callbacks has the folder
StartJob(j, callbacks) ==
    /\ j \in Jobs /\ pc[j] = "queued"
    /\ \A i \in Jobs : i < j => pc[i] # "queued"
    /\ Cardinality({i \in Jobs : Running(i)}) < max_workers
    /\ starts' = [starts EXCEPT ![j] = @ + 1]
    /\ \E cb \in callbacks : has_callback' = [has_callback EXCEPT ![j] = cb]
    /\ pc' = [pc EXCEPT ![j] = "validating"]
    /\ UNCHANGED <<splitVars, buildVars, handlerVars, ret, inferOn, duration,
                   last_update_progress, progress, linesRead, returncode,
                   job_result, srt, batchVars, reported, reports,
                   gpuAttempts, cpuAttempts, lastFail, cpuFailed,
                   gpuFailedEver>>

\* batch_renderer.py:98-103, the folder is valid or the job ends
Validate(j) ==
    /\ j \in Jobs /\ pc[j] = "validating"
    /\ \E is_valid \in BOOLEAN :
         IF is_valid
         THEN /\ pc' = [pc EXCEPT ![j] = "probing"]
              /\ UNCHANGED <<job_result, duration, last_update_progress,
                             progress, linesRead>>
         ELSE Fails(j)
    /\ UNCHANGED <<splitVars, buildVars, handlerVars, ret, inferOn,
                   has_callback, returncode, srt, batchVars, historyVars>>

\* batch_renderer.py:110, get_audio_duration returns one of durations or
\* raises
GetDuration(j, durations) ==
    /\ j \in Jobs /\ pc[j] = "probing"
    /\ \/ \E d \in durations :
            /\ duration' = [duration EXCEPT ![j] = d]
            /\ pc' = [pc EXCEPT ![j] = IF has_callback[j] THEN "report5"
                                      ELSE "t_entry"]
            /\ UNCHANGED <<job_result, last_update_progress, progress,
                           linesRead>>
       \/ Fails(j)
    /\ UNCHANGED <<splitVars, buildVars, handlerVars, ret, inferOn,
                   has_callback, returncode, srt, batchVars, historyVars>>

\* batch_renderer.py:115-116
Report5(j) ==
    /\ j \in Jobs /\ pc[j] = "report5"
    /\ Callback(j, 5, "t_entry")
    /\ UNCHANGED <<splitVars, buildVars, handlerVars, ret, inferOn,
                   has_callback, returncode, srt, batchVars, starts,
                   gpuAttempts, cpuAttempts, lastFail, cpuFailed,
                   gpuFailedEver>>

\* batch_renderer.py:118, transcribe returned the captions
TranscribeReturns(j) ==
    /\ j \in Jobs /\ pc[j] = "t_ok"
    /\ pc' = [pc EXCEPT ![j] = "segmenting"]
    /\ CallHistoryCleared(j)
    /\ UNCHANGED <<splitVars, buildVars, handlerVars, jobVars, batchVars, reported,
                   reports, starts, gpuFailedEver>>

\* batch_renderer.py:118 and 199-203, transcribe raised
TranscribeRaises(j) ==
    /\ j \in Jobs /\ pc[j] = "t_raise"
    /\ Fails(j)
    /\ CallHistoryCleared(j)
    /\ UNCHANGED <<splitVars, buildVars, handlerVars, has_callback, returncode, srt,
                   batchVars, reported, reports, starts, gpuFailedEver>>

\* batch_renderer.py:123-125, create_srt_file writes the subtitle file, or
\* raises before or after it has created the file
CreateSrt(j) ==
    /\ j \in Jobs /\ pc[j] = "segmenting"
    /\ \/ /\ srt' = [srt EXCEPT ![TempSrtFolder(j)] = TRUE]
          /\ pc' = [pc EXCEPT ![j] = IF has_callback[j] THEN "report20"
                                    ELSE "assembling"]
          /\ UNCHANGED <<job_result, duration, last_update_progress,
                         progress, linesRead>>
       \/ /\ \E created \in BOOLEAN :
               srt' = [srt EXCEPT ![TempSrtFolder(j)] = @ \/ created]
          /\ Fails(j)
    /\ UNCHANGED <<splitVars, buildVars, handlerVars, ret, inferOn,
                   has_callback, returncode, batchVars, historyVars>>

\* batch_renderer.py:128-129
Report20(j) ==
    /\ j \in Jobs /\ pc[j] = "report20"
    /\ Callback(j, 20, "assembling")
    /\ UNCHANGED <<splitVars, buildVars, handlerVars, ret, inferOn,
                   has_callback, returncode, srt, batchVars, starts,
                   gpuAttempts, cpuAttempts, lastFail, cpuFailed,
                   gpuFailedEver>>

\* batch_renderer.py:131-166, the command is built and the encoder spawned;
\* Popen raises when the encoder cannot be started
Spawn(j) ==
    /\ j \in Jobs /\ pc[j] = "assembling"
    /\ \E ok \in BOOLEAN :
         IF ok
         THEN /\ pc' = [pc EXCEPT ![j] = "encoding"]
              /\ last_update_progress' =
                    [last_update_progress EXCEPT ![j] = 0]
              /\ UNCHANGED <<job_result, duration, progress, linesRead>>
         ELSE Fails(j)
    /\ UNCHANGED <<splitVars, buildVars, handlerVars, ret, inferOn, has_callback,
                   returncode, srt, batchVars, historyVars>>

\* batch_renderer.py:168-174, one line of process.stderr, drawn from lines,
\* is read and, when a callback was given, parsed and compared; the encoder
\* writes at most max_lines lines
ReadLine(j, lines, max_lines) ==
    /\ j \in Jobs /\ pc[j] = "encoding"
    /\ linesRead[j] < max_lines
    /\ \E line \in lines :
         IF ~has_callback[j]
         THEN /\ linesRead' = [linesRead EXCEPT ![j] = @ + 1]
              /\ UNCHANGED <<pc, job_result, duration, last_update_progress,
                             progress>>
         ELSE IF ParseRaises(line, duration[j])
         THEN Fails(j)
         ELSE LET parsed == parse_progress(line, duration[j]) IN
              /\ linesRead' = [linesRead EXCEPT ![j] = @ + 1]
              /\ progress' = [progress EXCEPT ![j] = parsed]
              /\ IF ShouldReport(parsed, last_update_progress[j])
                 THEN /\ last_update_progress' =
                            [last_update_progress EXCEPT ![j] = parsed]
                      /\ pc' = [pc EXCEPT ![j] = "report_line"]
                 ELSE UNCHANGED <<pc, last_update_progress>>
              /\ UNCHANGED <<job_result, duration>>
    /\ UNCHANGED <<splitVars, buildVars, handlerVars, ret, inferOn, has_callback,
                   returncode, srt, batchVars, historyVars>>

\* batch_renderer.py:175, the value of the line is reported
ReportLine(j) ==
    /\ j \in Jobs /\ pc[j] = "report_line"
    /\ Callback(j, progress[j], "encoding")
    /\ UNCHANGED <<splitVars, buildVars, handlerVars, ret, inferOn,
                   has_callback, returncode, srt, batchVars, starts,
                   gpuAttempts, cpuAttempts, lastFail, cpuFailed,
                   gpuFailedEver>>

\* batch_renderer.py:177, stderr ended and the process exited with a zero
\* or a non-zero code
Wait(j) ==
    /\ j \in Jobs /\ pc[j] = "encoding"
    /\ \E rc \in {0, 1} :
         /\ returncode' = [returncode EXCEPT ![j] = rc]
         /\ pc' = [pc EXCEPT ![j] = IF rc = 0 /\ has_callback[j]
                                   THEN "report99" ELSE "cleanup"]
    /\ UNCHANGED <<splitVars, buildVars, handlerVars, ret, inferOn, has_callback,
                   duration, last_update_progress, progress, linesRead,
                   job_result, srt, batchVars, historyVars>>

\* batch_renderer.py:179-180, progress 99 after a zero exit
Report99(j) ==
    /\ j \in Jobs /\ pc[j] = "report99"
    /\ Callback(j, 99, "cleanup")
    /\ UNCHANGED <<splitVars, buildVars, handlerVars, ret, inferOn,
                   has_callback, returncode, srt, batchVars, starts,
                   gpuAttempts, cpuAttempts, lastFail, cpuFailed,
                   gpuFailedEver>>

\* batch_renderer.py:184
CleanupSrt(j) == [srt EXCEPT ![TempSrtFolder(j)] = FALSE]

\* batch_renderer.py:183-184: the file is removed when it exists; os.remove
\* can raise
Cleanup(j) ==
    /\ j \in Jobs /\ pc[j] = "cleanup"
    /\ \/ /\ srt' = CleanupSrt(j)
          /\ pc' = [pc EXCEPT ![j] = "check"]
          /\ UNCHANGED <<job_result, duration, last_update_progress,
                         progress, linesRead>>
       \/ /\ srt[TempSrtFolder(j)]
          /\ Fails(j)
          /\ UNCHANGED srt
    /\ UNCHANGED <<splitVars, buildVars, handlerVars, ret, inferOn,
                   has_callback, returncode, batchVars, historyVars>>

\* batch_renderer.py:187-190, progress 100 after a zero exit
Report100(j) ==
    /\ j \in Jobs /\ pc[j] = "check"
    /\ returncode[j] = 0 /\ has_callback[j]
    /\ Callback(j, 100, "return")
    /\ UNCHANGED <<splitVars, buildVars, handlerVars, ret, inferOn,
                   has_callback, returncode, srt, batchVars, starts,
                   gpuAttempts, cpuAttempts, lastFail, cpuFailed,
                   gpuFailedEver>>

\* batch_renderer.py:187-197, assemble_video returns its result
Return(j) ==
    /\ j \in Jobs
    /\ \/ pc[j] = "return"
       \/ pc[j] = "check" /\ ~(returncode[j] = 0 /\ has_callback[j])
    /\ IF returncode[j] = 0
       THEN /\ job_result' = [job_result EXCEPT ![j] =
                                 SuccessResult(FolderOf(j))]
            /\ pc' = [pc EXCEPT ![j] = "complete"]
       ELSE /\ job_result' = [job_result EXCEPT ![j] =
                                 FailureResult(FolderOf(j))]
            /\ pc' = [pc EXCEPT ![j] = "failed"]
    /\ LocalsAfterReturn(j)
    /\ UNCHANGED <<splitVars, buildVars, handlerVars, ret, inferOn,
                   has_callback, returncode, srt, batchVars, historyVars>>

----------------------------------------------------------------------------
\* BatchRenderer.process_queue

\* The orders in which as_completed can yield n futures
Orders(n) == { f \in [1..n -> 1..n] : \A a, b \in 1..n : a # b => f[a] # f[b] }

\* batch_renderer.py:243-249, what process_single_video returns for job j
FutureResult(j) == <<FolderOf(j), job_result[j][1], job_result[j][2]>>

\* batch_renderer.py:259-265: as_completed yields every future once it has
\* finished, in an order the pool decides; the loop ends, and process_queue
\* returns, when all of them have been yielded
ProcessQueueReturns ==
    /\ ~returned
    /\ \A j \in Jobs : pc[j] \in {"complete", "failed"}
    /\ \E order \in Orders(Len(video_folders)) :
         results' = [k \in 1..Len(video_folders) |-> FutureResult(order[k])]
    /\ returned' = TRUE
    /\ UNCHANGED <<splitVars, buildVars, handlerVars, threadVars, jobVars,
                   video_folders, max_workers, historyVars>>

----------------------------------------------------------------------------
\* A single caller of one WhisperHandler: thread 1 on processor 1

ClientTranscribe ==
    /\ pc[1] = "idle"
    /\ pc' = [pc EXCEPT ![1] = "t_entry"]
    /\ gpuAttempts' = [gpuAttempts EXCEPT ![1] = 0]
    /\ cpuAttempts' = [cpuAttempts EXCEPT ![1] = 0]
    /\ lastFail' = [lastFail EXCEPT ![1] = "None"]
    /\ cpuFailed' = [cpuFailed EXCEPT ![1] = FALSE]
    /\ UNCHANGED <<splitVars, buildVars, handlerVars, ret, inferOn, jobVars, batchVars,
                   reported, reports, starts, gpuFailedEver>>

ClientLoadModel ==
    /\ pc[1] = "idle"
    /\ pc' = [pc EXCEPT ![1] = "l_check"]
    /\ ret' = [ret EXCEPT ![1] = "client"]
    /\ gpuAttempts' = [gpuAttempts EXCEPT ![1] = 0]
    /\ cpuAttempts' = [cpuAttempts EXCEPT ![1] = 0]
    /\ lastFail' = [lastFail EXCEPT ![1] = "None"]
    /\ cpuFailed' = [cpuFailed EXCEPT ![1] = FALSE]
    /\ UNCHANGED <<splitVars, buildVars, handlerVars, inferOn, jobVars, batchVars,
                   reported, reports, starts, gpuFailedEver>>

ClientReturn ==
    /\ pc[1] \in {"t_ok", "t_raise", "l_done"}
    /\ pc' = [pc EXCEPT ![1] = "idle"]
    /\ UNCHANGED <<splitVars, buildVars, handlerVars, ret, inferOn, jobVars, batchVars,
                   historyVars>>

----------------------------------------------------------------------------
\* Strings that the builders exchange are sequences of tokens: "|", ":"
\* and "," are the delimiter characters, every other token is a run of
\* characters that no parsing step of build_command splits.

\* None is the empty sequence; a present dictionary d is Some(d), and
\* Value(o) is the dictionary inside.
None == <<>>
Some(d) == <<d>>
Value(o) == o[1]

\* s.startswith(prefix)
StartsWith(s, prefix) ==
    Len(s) >= Len(prefix) /\ SubSeq(s, 1, Len(prefix)) = prefix

Occurs(s, sub, i) ==
    i + Len(sub) - 1 <= Len(s) /\ SubSeq(s, i, i + Len(sub) - 1) = sub

\* sub in s
Contains(s, sub) == \E i \in 1..Len(s) : Occurs(s, sub, i)

FirstAt(s, sub) ==
    CHOOSE i \in 1..Len(s) :
        Occurs(s, sub, i) /\ \A k \in 1..(i - 1) : ~Occurs(s, sub, k)

\* s.split(sep)
RECURSIVE StrSplit(_, _)
StrSplit(s, sep) ==
    IF ~Contains(s, sep) THEN <<s>>
    ELSE LET i == FirstAt(s, sep)
         IN  <<SubSeq(s, 1, i - 1)>>
                \o StrSplit(SubSeq(s, i + Len(sep), Len(s)), sep)

\* sep.join(parts)
RECURSIVE StrJoin(_, _)
StrJoin(parts, sep) ==
    IF parts = <<>> THEN <<>>
    ELSE IF Len(parts) = 1 THEN parts[1]
    ELSE parts[1] \o sep \o StrJoin(Tail(parts), sep)

\* settings.get(key, default); settings.keys is the set of keys present
Get(s, key, default) == IF key \in s.keys THEN s[key] ELSE default

----------------------------------------------------------------------------
\* VideoConfig (config.py)

\* config.py:22-25
RESOLUTION_720P == <<1280, 720>>
RESOLUTION_1080P == <<1920, 1080>>
RESOLUTION_2K == <<2560, 1440>>
RESOLUTION_4K == <<3840, 2160>>

ResolutionNames == {"720p", "1080p", "2K", "4K"}

\* config.py:28-44
resolution_from_string(res_str) ==
    CASE res_str = "720p" -> RESOLUTION_720P
      [] res_str = "1080p" -> RESOLUTION_1080P
      [] res_str = "2K" -> RESOLUTION_2K
      [] res_str = "4K" -> RESOLUTION_4K
      [] OTHER -> RESOLUTION_1080P

\* batch_renderer.py:40-45 and config.py:59-60: the resolution of the
\* VideoConfig that VideoProcessor.__init__ creates from the settings
ConfigResolution(s) ==
    resolution_from_string(Get(s, "video_resolution", "1080p"))

\* The default of the resolution parameters (subtitle_style.py:18,
\* motion_effects.py:38, 68, 254)
DefaultResolution == <<1920, 1080>>

----------------------------------------------------------------------------
\* MotionEffectBuilder._build_base_filter.  crop_settings is None or
\* Some([x, y, width, height]); size is img.size, None when there is no
\* image path or the image cannot be opened.  The fragment is [kind, x, y, width, height,
\* scale]: "auto" is scale-to-fill and center-crop to the resolution, "crop"
\* the exact crop followed by the scale.

\* motion_effects.py:302
MinCropSize == 100

\* motion_effects.py:270, 285, 290, 304, 316
AutoCrop(resolution) ==
    [kind |-> "auto", x |-> 0, y |-> 0, width |-> resolution[1],
     height |-> resolution[2], scale |-> resolution]

\* motion_effects.py:283
CoordinatesInvalid(crop) ==
    crop.x < 0 \/ crop.y < 0 \/ crop.width <= 0 \/ crop.height <= 0

ClampedExtentAlways(origin, extent, limit) == limit - origin

\* motion_effects.py:293-299
ClampedExtent(origin, extent, limit) ==
    IF origin + extent > limit THEN limit - origin ELSE extent

\* motion_effects.py:251-316
build_base_filter(crop, size, resolution) ==
    IF crop = None \/ size = None THEN AutoCrop(resolution)
    ELSE LET c == Value(crop)
         IN  IF CoordinatesInvalid(c) THEN AutoCrop(resolution)
             ELSE IF c.x >= size[1] \/ c.y >= size[2]
             THEN AutoCrop(resolution)
             ELSE LET crop_w == ClampedExtent(c.x, c.width, size[1])
                      crop_h == ClampedExtent(c.y, c.height, size[2])
                  IN  IF crop_w < MinCropSize \/ crop_h < MinCropSize
                      THEN AutoCrop(resolution)
                      ELSE [kind |-> "crop", x |-> c.x, y |-> c.y,
                            width |-> crop_w, height |-> crop_h,
                            scale |-> resolution]

----------------------------------------------------------------------------
\* MotionEffectBuilder.build_video_level_filters

SUPPORTED_EFFECTS == {"Static", "Noise", "Tilt", "Dynamic Tilt"}

OverlayMarker == <<"VIDEO_OVERLAY", "|">>

build_single_effectUnknownKept(effect, grain) ==
    IF effect = "Noise"
    THEN IF ~grain THEN None
         ELSE <<"VIDEO_OVERLAY", "|", "grain_video_path", "|", "opacity",
                "|", "total_duration">>
    ELSE <<effect>>

\* motion_effects.py:139-248; the filter of a transform effect is one token
build_single_effect(effect, grain) ==
    IF effect = "Noise"
    THEN IF ~grain THEN None
         ELSE <<"VIDEO_OVERLAY", "|", "grain_video_path", "|", "opacity",
                "|", "total_duration">>
    ELSE IF effect \in {"Tilt", "Dynamic Tilt"} THEN <<effect>>
    ELSE None

\* motion_effects.py:88
ActiveEffects(effects) == SelectSeq(effects, LAMBDA e : e # "Static")

\* motion_effects.py:84-136
build_video_level_filters(effects, grain) ==
    LET active_effects == ActiveEffects(effects)
        built == [k \in 1..Len(active_effects) |->
                      build_single_effect(active_effects[k], grain)]
        overlays == SelectSeq(built,
                        LAMBDA f : f # None /\ StartsWith(f, OverlayMarker))
        filter_chain == SelectSeq(built,
                        LAMBDA f : f # None /\ ~StartsWith(f, OverlayMarker))
        video_overlay_result ==
            IF overlays = <<>> THEN None ELSE overlays[1]
    IN  IF active_effects = <<>> THEN None
        ELSE IF video_overlay_result # None /\ filter_chain # <<>>
        THEN video_overlay_result \o <<"|", "FILTERS", "|">>
                \o StrJoin(filter_chain, <<",">>)
        ELSE IF video_overlay_result # None THEN video_overlay_result
        ELSE IF filter_chain = <<>> THEN None
        ELSE StrJoin(filter_chain, <<",">>)

----------------------------------------------------------------------------
\* SubtitleStyleBuilder.build.  The anchor is caption_position['y'] in
\* hundredths; fonts and colours are left out of the style.

\* subtitle_style.py:109, in hundredths
MINIMUM_SIDE_MARGIN_PERCENT == 10

\* subtitle_style.py:61
HasOutline(s) == Get(s, "has_outline", ~Get(s, "has_background", TRUE))

\* The floats p / 100 for the whole percentages: a position of the
\* settings, and the literals 0.10, 0.33, 0.5 and 0.66 of subtitle_style.py
Hundredths == [p \in 0..100 |-> FRatio(p, 100)]

\* subtitle_style.py:112, on a screen SCREEN_WIDTH wide
SideMargin(SCREEN_WIDTH) ==
    FTrunc(FMulInt(Hundredths[MINIMUM_SIDE_MARGIN_PERCENT], SCREEN_WIDTH))

\* subtitle_style.py:128-139, for a caption at p hundredths of a screen
\* SCREEN_HEIGHT high
VerticalPlacement(p, SCREEN_HEIGHT) ==
    LET y_norm == Hundredths[p]
    IN  IF FLess(y_norm, Hundredths[33])
        THEN [v_align_base |-> 6,
              margin_v |-> FTrunc(FMulInt(y_norm, SCREEN_HEIGHT))]
        ELSE IF FLess(Hundredths[66], y_norm)
        THEN [v_align_base |-> 0,
              margin_v |-> FTrunc(FMulInt(FSub(FInt(1), y_norm),
                                          SCREEN_HEIGHT))]
        ELSE [v_align_base |-> 3,
              margin_v |-> FTrunc(FMulInt(FSub(Hundredths[50], y_norm),
                                          SCREEN_HEIGHT))]

\* The margins of every position on the screens of config.py:22-25
Resolutions ==
    {RESOLUTION_720P, RESOLUTION_1080P, RESOLUTION_2K, RESOLUTION_4K}
Margins ==
    [r \in Resolutions |->
        [side |-> SideMargin(r[1]),
         placement |-> [p \in 0..100 |-> VerticalPlacement(p, r[2])]]]

\* subtitle_style.py:29-183
SubtitleStyle(s, resolution) ==
    LET has_background == Get(s, "has_background", TRUE)
        has_outline == HasOutline(s)
        min_side_margin_px == Margins[resolution].side
        placement ==
            Margins[resolution].placement[Get(s, "caption_position", 95)]
        h_align == 2
    IN  [BorderStyle |-> IF has_background THEN 4 ELSE 1,
         Outline |-> IF ~has_background /\ has_outline
                     THEN Get(s, "outline_width", 3) ELSE 0,
         Shadow |-> IF ~has_background /\ has_outline
                    THEN Get(s, "shadow_depth", 2) ELSE 0,
         MarginV |-> placement.margin_v,
         MarginL |-> min_side_margin_px,
         MarginR |-> min_side_margin_px,
         Alignment |-> placement.v_align_base + h_align,
         WrapStyle |-> 2]

----------------------------------------------------------------------------
\* FFmpegCommandBuilder.build_command.  The command is a record: hwaccel
\* (the -hwaccel options are present), inputs (the -i options in order),
\* filter_parts (the parts of -filter_complex in order), map_video and
\* map_audio (the -map options), encoder (-c:v), bitrate (the -b:v and
\* -maxrate options, None when absent) and raised (an exception left
\* build_command).  A stream label is <<name, index>>.

Label(name, index) == <<name, index>>

\* ffmpeg_builder.py:61-71.  The value under 'motion_effects' is
\* None ([type |-> "NoneType"]), a string ([type |-> "str", name]) or a
\* list ([type |-> "list", value], value the sequence of names)
MotionEffects(s) ==
    LET motion_effects == Get(s, "motion_effects", [type |-> "NoneType"])
    IN  IF motion_effects.type = "NoneType"
        THEN LET old_effect == Get(s, "motion_effect", "Static")
             IN  <<old_effect>>
        ELSE IF motion_effects.type = "str"
        THEN <<motion_effects.name>>
        ELSE motion_effects.value

HwaccelDespiteCrop(s, gpu, available) == gpu /\ available

\* ffmpeg_builder.py:87-89
Hwaccel(s, gpu, available) ==
    gpu /\ available /\ Get(s, "crop_settings", None) = None

\* ffmpeg_builder.py:305
Encoder(gpu, available) == IF gpu /\ available THEN "h264_nvenc" ELSE "libx264"

\* config.py:11, the fps of the VideoConfig that VideoProcessor.__init__
\* creates (batch_renderer.py:40-42, config.py:55)
FPS_STANDARD == 30

\* ffmpeg_builder.py:291
HasMotion(motion_effects) ==
    \E k \in 1..Len(motion_effects) : motion_effects[k] # "Static"

\* ffmpeg_builder.py:293-298: the numbers of target_bitrate and
\* max_bitrate, in M
Bitrate(fps, has_motion) ==
    IF has_motion
    THEN [target |-> FTrunc(FAdd(FRatio(3, 2), FMulInt(Hundredths[5], fps))),
          max    |-> FTrunc(FAdd(FInt(2), FMulInt(Hundredths[6], fps)))]
    ELSE [target |-> FTrunc(FAdd(FInt(1), FMulInt(Hundredths[3], fps))),
          max    |-> FTrunc(FAdd(FRatio(3, 2), FMulInt(Hundredths[4], fps)))]

\* The bitrates at the presets of config.py:10-12
Bitrates == [fps \in {24, 30, 60} |-> [m \in BOOLEAN |-> Bitrate(fps, m)]]

\* ffmpeg_builder.py:305-331: the -b:v and -maxrate options, which only
\* the h264_nvenc branch writes
BitrateOptions(encoder, fps, motion_effects) ==
    IF encoder = "h264_nvenc"
    THEN Some(Bitrates[fps][HasMotion(motion_effects)])
    ELSE None

\* ffmpeg_builder.py:96-106
ImageInputs(f, d) ==
    LET time_per_image == FDivInt(FInt(d), Len(f.images))
    IN  [i \in 1..Len(f.images) |->
            [kind |-> "image", path |-> f.images[i],
             t |-> time_per_image]]

AudioInput(f) == [kind |-> "audio", path |-> f.voiceover, t |-> None]

\* ffmpeg_builder.py:146-150, 178-182
OverlayInput(info, d) ==
    [kind |-> "overlay", path |-> Value(info).path, t |-> FInt(d)]

\* The tokens that are the text of a number: f"{opacity}" and
\* f"{total_duration}" of motion_effects.py:190
NumberTokens == {"opacity", "total_duration"}

\* float(text) returns: the text is one token, the text of a number.  Of
\* every other text float raises ValueError
IsFloatText(text) == Len(text) = 1 /\ text[1] \in NumberTokens

\* ffmpeg_builder.py:133-140, 162-172: the overlay instruction split at
\* ":".  info is video_overlay_info, None with fewer than four fields;
\* raised when float() raises ValueError on the third or on the fourth
\* field (138-139, 170-171)
OverlayInfo(instruction) ==
    LET parts == StrSplit(instruction, <<":">>)
    IN  IF Len(parts) >= 4
        THEN IF IsFloatText(parts[3]) /\ IsFloatText(parts[4])
             THEN [raised |-> FALSE,
                   info |-> Some([path |-> parts[2], opacity |-> parts[3],
                                  duration |-> parts[4]])]
             ELSE [raised |-> TRUE, info |-> None]
        ELSE [raised |-> FALSE, info |-> None]

\* ffmpeg_builder.py:116-189: [has_video_overlay, video_overlay_info,
\* video_motion_filters] read from the result of build_video_level_filters;
\* raised when float() raised on a field of the overlay instruction, which
\* leaves build_command
EffectPlan(video_motion_result) ==
    LET separator == <<"|", "FILTERS", "|">>
        prefix == <<"VIDEO_OVERLAY", ":">>
        nothing == [raised |-> FALSE, has_video_overlay |-> FALSE,
                    video_overlay_info |-> None,
                    video_motion_filters |-> None]
        parsed(overlay, filters) ==
            IF overlay.raised
            THEN [raised |-> TRUE, has_video_overlay |-> TRUE,
                  video_overlay_info |-> None, video_motion_filters |-> None]
            ELSE [raised |-> FALSE, has_video_overlay |-> TRUE,
                  video_overlay_info |-> overlay.info,
                  video_motion_filters |-> filters]
    IN  IF video_motion_result = None THEN nothing
        ELSE IF Contains(video_motion_result, separator)
        THEN LET parts == StrSplit(video_motion_result, separator)
             IN  IF StartsWith(parts[1], prefix)
                 THEN parsed(OverlayInfo(parts[1]), parts[2])
                 ELSE nothing
        ELSE IF StartsWith(video_motion_result, prefix)
        THEN parsed(OverlayInfo(video_motion_result), None)
        ELSE [raised |-> FALSE, has_video_overlay |-> FALSE,
              video_overlay_info |-> None,
              video_motion_filters |-> video_motion_result]

\* ffmpeg_builder.py:195-208: one part per image, then the concatenation
ImageParts(s, f) ==
    [i \in 1..Len(f.images) |->
        [kind |-> "image", ins |-> <<Label("input", i - 1)>>,
         body |-> <<build_base_filter(Get(s, "crop_settings", None),
                                      f.sizes[i], DefaultResolution)>>,
         out |-> Label("v", i - 1)]]

\* A concatenation that reads the first prepared stream only
ConcatPartFirstOnly(f) ==
    [kind |-> "concat", ins |-> <<Label("v", 0)>>,
     body |-> None, out |-> Label("vconcat", 0)]

\* ffmpeg_builder.py:204-208
ConcatPart(f) ==
    [kind |-> "concat",
     ins |-> [i \in 1..Len(f.images) |-> Label("v", i - 1)],
     body |-> None, out |-> Label("vconcat", 0)]

SubtitleInputAlwaysMotion(effect_parts) == Label("vmotion", 0)

\* ffmpeg_builder.py:235, 257, 263, 268: video_input_for_subtitles
SubtitleInput(effect_parts) ==
    IF effect_parts = <<>> THEN Label("vconcat", 0) ELSE Label("vmotion", 0)

\* ffmpeg_builder.py:210-269: the parts of the video-level effects
EffectParts(plan, grain_input_index) ==
    LET grain == [kind |-> "grain",
                  ins |-> <<Label("input", grain_input_index)>>,
                  body |-> None, out |-> Label("grain", 0)]
    IN  IF plan.has_video_overlay /\ plan.video_motion_filters # None
        THEN << [kind |-> "motion", ins |-> <<Label("vconcat", 0)>>,
                 body |-> plan.video_motion_filters,
                 out |-> Label("vfiltered", 0)],
                grain,
                [kind |-> "overlay",
                 ins |-> <<Label("vfiltered", 0), Label("grain", 0)>>,
                 body |-> None, out |-> Label("vmotion", 0)] >>
        ELSE IF plan.has_video_overlay
        THEN << grain,
                [kind |-> "overlay",
                 ins |-> <<Label("vconcat", 0), Label("grain", 0)>>,
                 body |-> None, out |-> Label("vmotion", 0)] >>
        ELSE IF plan.video_motion_filters # None
        THEN << [kind |-> "motion", ins |-> <<Label("vconcat", 0)>>,
                 body |-> plan.video_motion_filters,
                 out |-> Label("vmotion", 0)] >>
        ELSE <<>>

\* ffmpeg_builder.py:32-346
\* available: what check_gpu_available() returns at its first call (line
\* 88) and at its second (line 305)
build_command(s, f, d, gpu, available, grain) ==
    LET num_images == Len(f.images)
        style == SubtitleStyle(s, DefaultResolution)
        video_motion_result ==
            build_video_level_filters(MotionEffects(s), grain)
        plan == EffectPlan(video_motion_result)
        grain_input_index == num_images + 1
        effect_parts == EffectParts(plan, grain_input_index)
        encoder == Encoder(gpu, available[2])
    IN  [raised |-> plan.raised
                      \/ (plan.has_video_overlay
                            /\ plan.video_overlay_info = None),
         hwaccel |-> Hwaccel(s, gpu, available[1]),
         inputs |-> ImageInputs(f, d) \o <<AudioInput(f)>>
                      \o (IF plan.video_overlay_info # None
                          THEN <<OverlayInput(plan.video_overlay_info, d)>>
                          ELSE <<>>),
         filter_parts |->
             ImageParts(s, f) \o <<ConcatPart(f)>> \o effect_parts
                \o << [kind |-> "subtitles",
                       ins |-> <<SubtitleInput(effect_parts)>>,
                       body |-> <<style>>, out |-> Label("vout", 0)] >>,
         map_video |-> Label("vout", 0),
         map_audio |-> num_images,
         encoder |-> encoder,
         bitrate |-> BitrateOptions(encoder, FPS_STANDARD, MotionEffects(s))]

----------------------------------------------------------------------------
\* Inputs of the command construction

MaxEffects == 2
MaxImages == 2
MaxCropStep == 4

\* The supported names and one name that no branch of _build_single_effect
\* knows
EffectNames == SUPPORTED_EFFECTS \cup {"Unknown"}

\* Lists of at most MaxEffects effect names
EffectLists ==
    UNION { [1..n -> EffectNames] : n \in 0..MaxEffects }

\* caption_position['y'] in hundredths: a top, a middle and a bottom anchor
Anchors == {10, 51, 90}

\* A manual crop that lies within a DefaultResolution image
QuarterCrop ==
    [x |-> 0, y |-> 0, width |-> DefaultResolution[1] \div 2,
     height |-> DefaultResolution[2] \div 2]

\* Settings with an effect list, or a single name, under 'motion_effects'
EffectSettings ==
    { [keys |-> {"motion_effects", "crop_settings", "video_resolution",
                 "caption_position"},
       motion_effects |-> e, motion_effect |-> "Static",
       crop_settings |-> c, video_resolution |-> r, caption_position |-> y,
       has_background |-> TRUE, has_outline |-> FALSE, outline_width |-> 3] :
      e \in { [type |-> "list", value |-> l] : l \in EffectLists }
             \cup { [type |-> "str", name |-> n] : n \in EffectNames },
      c \in {None, Some(QuarterCrop)},
      r \in ResolutionNames, y \in Anchors }

\* Settings of the older format, with one effect under 'motion_effect' and
\* 'motion_effects' absent or None
LegacySettings ==
    { [keys |-> ks \cup {"motion_effect", "crop_settings",
                         "video_resolution", "caption_position"},
       motion_effects |-> [type |-> "NoneType"],
       motion_effect |-> e,
       crop_settings |-> c, video_resolution |-> r, caption_position |-> y,
       has_background |-> TRUE, has_outline |-> FALSE, outline_width |-> 3] :
      ks \in {{}, {"motion_effects"}},
      e \in EffectNames, c \in {None, Some(QuarterCrop)},
      r \in ResolutionNames, y \in Anchors }

\* detect_files_in_folder: n images of DefaultResolution size and the audio
FilesOf(n) ==
    [images |-> [i \in 1..n |-> <<"image", i>>],
     sizes |-> [i \in 1..n |-> DefaultResolution],
     voiceover |-> <<"voiceover", 0>>]

\* Settings that vary the background and outline keys: each is absent,
\* True or False, and outline_width is absent, 0 or 3
StyleKeys == {"has_background", "has_outline", "outline_width"}

StyleSettings ==
    { [keys |-> ks \cup {"video_resolution", "caption_position"},
       motion_effects |-> [type |-> "NoneType"],
       motion_effect |-> "Static",
       crop_settings |-> None, video_resolution |-> r,
       caption_position |-> y,
       has_background |-> IF "has_background" \in ks THEN b ELSE TRUE,
       has_outline |-> IF "has_outline" \in ks THEN o ELSE FALSE,
       outline_width |-> IF "outline_width" \in ks THEN w ELSE 3] :
      ks \in SUBSET StyleKeys, b \in BOOLEAN, o \in BOOLEAN, w \in {0, 3},
      r \in ResolutionNames, y \in Anchors }

\* Crop coordinates and image sizes lie on a grid of half the minimum size
Grid(k) == (k * MinCropSize) \div 2

CropInputs ==
    { [x |-> Grid(a), y |-> Grid(b), width |-> Grid(w), height |-> Grid(h)] :
      a \in -1..MaxCropStep, b \in -1..MaxCropStep,
      w \in 0..MaxCropStep, h \in 0..MaxCropStep }

ImageSizes ==
    { <<Grid(w), Grid(h)>> : w \in 2..MaxCropStep, h \in 2..MaxCropStep }

----------------------------------------------------------------------------
\* The calls

BuildIdle ==
    /\ settings = None /\ files = None
    /\ use_gpu = FALSE /\ gpu_available = <<FALSE, FALSE>> /\ grain_exists = FALSE
    /\ total_duration = 0
    /\ subtitle_style = None /\ cmd = None
    /\ crop_settings = None /\ image_size = None /\ base_filter = None
    /\ buildPc = "idle"

\* FFmpegCommandBuilder(settings, config).build_command(files, temp_srt,
\* duration, output_path, use_gpu) (batch_renderer.py:131-134), up to the
\* -hwaccel options (ffmpeg_builder.py:52-93): the style is built and
\* check_gpu_available() has run nvidia-smi for the first time
BuildCommandHwaccel ==
    /\ buildPc = "input"
    /\ subtitle_style' = SubtitleStyle(settings, DefaultResolution)
    /\ cmd' = [hwaccel |-> Hwaccel(settings, use_gpu, gpu_available[1])]
    /\ buildPc' = "inputs"
    /\ UNCHANGED <<settings, files, use_gpu, gpu_available, grain_exists,
                   total_duration, crop_settings, image_size, base_filter>>

\* The rest of build_command (ffmpeg_builder.py:95-346): the inputs, the
\* filter graph and the encoder, for which check_gpu_available() runs
\* nvidia-smi a second time
BuildCommand ==
    /\ buildPc = "inputs"
    /\ cmd' = build_command(settings, files, total_duration, use_gpu,
                            gpu_available, grain_exists)
    /\ buildPc' = "done"
    /\ UNCHANGED <<settings, files, use_gpu, gpu_available, grain_exists,
                   total_duration, subtitle_style, crop_settings, image_size,
                   base_filter>>

\* SubtitleStyleBuilder(settings).build() (ffmpeg_builder.py:58-59)
BuildStyle ==
    /\ buildPc = "input"
    /\ subtitle_style' = SubtitleStyle(settings, DefaultResolution)
    /\ buildPc' = "done"
    /\ UNCHANGED <<settings, files, use_gpu, gpu_available, grain_exists,
                   total_duration, cmd, crop_settings, image_size,
                   base_filter>>

\* MotionEffectBuilder.build_filter(effect, duration, fps, crop_settings,
\* image_path) (motion_effects.py:55-60)
BuildFilter ==
    /\ buildPc = "input"
    /\ base_filter' = Some(build_base_filter(crop_settings, image_size,
                                             DefaultResolution))
    /\ buildPc' = "done"
    /\ UNCHANGED <<settings, files, use_gpu, gpu_available, grain_exists,
                   total_duration, subtitle_style, cmd, crop_settings,
                   image_size>>

----------------------------------------------------------------------------
\* Initial states and specifications

SplitIdle ==
    /\ WrapIdle
    /\ captions = <<>> /\ max_words = 0 /\ max_chars = 0
    /\ result = <<>> /\ splitPc = "idle" /\ split_locals = NoChunks

\* WhisperHandler.__init__ (whisper_handler.py:19-23) for every processor,
\* and the locals of the jobs before they start
RenderInit(n, workers) ==
    /\ video_folders = [k \in 1..n |-> k]
    /\ max_workers = workers
    /\ cuda_available \in BOOLEAN
    /\ model = [h \in Processors |-> "None"]
    /\ device = [h \in Processors |-> "None"]
    /\ failed_gpu = [h \in Processors |-> FALSE]
    /\ pc = [t \in Threads |-> IF t <= n THEN "queued" ELSE "idle"]
    /\ ret = [t \in Threads |-> "client"]
    /\ inferOn = [t \in Threads |-> "None"]
    /\ has_callback = [t \in Threads |-> FALSE]
    /\ duration = [t \in Threads |-> 0]
    /\ last_update_progress = [t \in Threads |-> 0]
    /\ progress = [t \in Threads |-> -1]
    /\ linesRead = [t \in Threads |-> 0]
    /\ returncode = [t \in Threads |-> -1]
    /\ job_result = [t \in Threads |-> <<>>]
    /\ srt = [f \in Folders |-> FALSE]
    /\ results = <<>>
    /\ returned = FALSE
    /\ reported = [t \in Threads |-> -1]
    /\ reports = [t \in Threads |-> 0]
    /\ starts = [t \in Threads |-> 0]
    /\ gpuAttempts = [t \in Threads |-> 0]
    /\ cpuAttempts = [t \in Threads |-> 0]
    /\ lastFail = [t \in Threads |-> "None"]
    /\ cpuFailed = [t \in Threads |-> FALSE]
    /\ gpuFailedEver = [h \in Processors |-> FALSE]

\* BatchRenderer.__init__ (batch_renderer.py:209-223) and the call of
\* process_queue with n pairwise distinct folders
Init ==
    /\ SplitIdle
    /\ BuildIdle
    /\ \E n \in 1..MaxFolders, workers \in 1..DefaultMaxWorkers :
         RenderInit(n, workers)

\* The lines of the encoders of a batch carry no progress marker, and an
\* encoder of a batch writes at most MaxBatchLines of them
BatchLines == { l \in Lines : l.frame = -1 /\ l.time = -1 }
MaxBatchLines == 1

Next ==
    \/ \E j \in Threads :
         \/ StartJob(j, {FALSE})
         \/ Validate(j) \/ GetDuration(j, {1})
         \/ HandlerStep(j)
         \/ TranscribeReturns(j) \/ TranscribeRaises(j)
         \/ CreateSrt(j) \/ Spawn(j) \/ ReadLine(j, BatchLines, MaxBatchLines) \/ Wait(j)
         \/ Cleanup(j) \/ Return(j)
    \/ ProcessQueueReturns

Spec == Init /\ [][Next]_vars

\* The batch when every thread that can take a step eventually takes one:
\* a free worker thread takes the next queued job, every call made by a job
\* (transcription, the encoder's output and exit) returns, and
\* process_queue collects the futures
\* of a queue of at most MaxQueue folders
MaxQueue == 2

LiveInit ==
    /\ SplitIdle
    /\ BuildIdle
    /\ \E n \in 1..MaxQueue, workers \in 1..DefaultMaxWorkers :
         RenderInit(n, workers)

LiveSpec == LiveInit /\ [][Next]_vars /\ WF_vars(Next)

\* One job: process_queue with one folder and one worker, with every
\* callback choice, audio duration and encoder line
JobInit ==
    /\ SplitIdle
    /\ BuildIdle
    /\ RenderInit(1, 1)

JobNext ==
    \/ StartJob(1, BOOLEAN)
    \/ Validate(1) \/ GetDuration(1, 0..MaxDuration)
    \/ Report5(1) \/ Report20(1) \/ ReportLine(1) \/ Report99(1)
    \/ Report100(1)
    \/ HandlerStep(1)
    \/ TranscribeReturns(1) \/ TranscribeRaises(1)
    \/ CreateSrt(1) \/ Spawn(1) \/ ReadLine(1, Lines, MaxLines) \/ Wait(1)
    \/ Cleanup(1) \/ Return(1)
    \/ ProcessQueueReturns

JobSpec == JobInit /\ [][JobNext]_vars

\* One WhisperHandler used by one caller that calls load_model and
\* transcribe in any order, one call at a time
HandlerInit ==
    /\ SplitIdle
    /\ BuildIdle
    /\ RenderInit(0, 1)

HandlerNext ==
    \/ ClientTranscribe \/ ClientLoadModel \/ ClientReturn
    \/ HandlerStep(1)

HandlerSpec == HandlerInit /\ [][HandlerNext]_vars

\* One call of split_into_shorter_segments on a bounded input
SplitSpecInit ==
    /\ SplitInit
    /\ BuildIdle
    /\ RenderInit(0, 1)
    /\ cuda_available = FALSE

SplitNext == Split /\ UNCHANGED <<renderVars, buildVars>>

SplitSpec == SplitSpecInit /\ [][SplitNext]_vars

\* Texts for the lists of several captions: no word, one short word, a
\* short word followed by a long one
ListTexts ==
    { JoinText(ws) :
        ws \in { <<>>,
                 <<[id |-> 1, len |-> 1, punct |-> FALSE]>>,
                 <<[id |-> 1, len |-> 1, punct |-> FALSE],
                   [id |-> 2, len |-> MaxWordLen, punct |-> TRUE]>> } }

\* The lists of captions: the empty list, every single caption with at
\* most MaxSegWords words, and the lists of 2..MaxCaptions captions over
\* ListTexts; every caption lasts from 0 to 1
CaptionLists ==
    LET caption(t) == UnitCaption(t)
    IN  {<<>>}
          \cup { <<caption(JoinText(ws))>> : ws \in WordSeqs }
          \cup UNION { { [k \in 1..n |-> caption(f[k])] :
                            f \in [1..n -> ListTexts] } : n \in 2..MaxCaptions }

\* One call of split_into_shorter_segments on a list of captions, followed
\* through its loops
SplitLoopInit ==
    /\ WrapIdle
    /\ captions \in CaptionLists
    /\ max_words \in 0..MaxLimitWords
    /\ max_chars \in 0..MaxLimitChars
    /\ result = <<>>
    /\ split_locals = NoChunks
    /\ splitPc = "caption"
    /\ BuildIdle
    /\ RenderInit(0, 1)
    /\ cuda_available = FALSE

SplitLoopNext ==
    (ForCaption \/ ForWord \/ AfterWords \/ SplitReturn)
        /\ UNCHANGED <<renderVars, buildVars>>

\* The call runs in one thread that nothing suspends for ever: a step that
\* can be taken is taken
SplitLoopSpec ==
    SplitLoopInit /\ [][SplitLoopNext]_vars /\ WF_vars(SplitLoopNext)

\* One call of wrap_caption_text on a bounded text
WrapSpecInit ==
    /\ WrapInit
    /\ captions = <<>> /\ max_words = 0 /\ max_chars = 0
    /\ result = <<>> /\ splitPc = "idle" /\ split_locals = NoChunks
    /\ BuildIdle
    /\ RenderInit(0, 1)
    /\ cuda_available = FALSE

WrapNext ==
    /\ Wrap
    /\ UNCHANGED <<captions, max_words, max_chars, result, splitPc,
                   split_locals, renderVars, buildVars>>

WrapSpec == WrapSpecInit /\ [][WrapNext]_vars

RenderIdle ==
    /\ RenderInit(0, 1)
    /\ cuda_available = FALSE

\* One call of build_command on bounded settings and files
BuildInit ==
    /\ SplitIdle
    /\ RenderIdle
    /\ settings \in EffectSettings \cup LegacySettings
    /\ \E n \in 1..MaxImages : files = FilesOf(n)
    /\ use_gpu \in BOOLEAN
    /\ gpu_available \in [1..2 -> BOOLEAN]
    /\ grain_exists \in BOOLEAN
    /\ total_duration \in 1..MaxDuration
    /\ subtitle_style = None /\ cmd = None
    /\ crop_settings = None /\ image_size = None /\ base_filter = None
    /\ buildPc = "input"

BuildNext ==
    (BuildCommandHwaccel \/ BuildCommand) /\ UNCHANGED <<splitVars, renderVars>>

BuildSpec == BuildInit /\ [][BuildNext]_vars

\* One call of SubtitleStyleBuilder(settings).build()
StyleInit ==
    /\ SplitIdle
    /\ RenderIdle
    /\ settings \in StyleSettings
    /\ files = None
    /\ use_gpu = FALSE /\ gpu_available = <<FALSE, FALSE>> /\ grain_exists = FALSE
    /\ total_duration = 0
    /\ subtitle_style = None /\ cmd = None
    /\ crop_settings = None /\ image_size = None /\ base_filter = None
    /\ buildPc = "input"

StyleNext == BuildStyle /\ UNCHANGED <<splitVars, renderVars>>

StyleSpec == StyleInit /\ [][StyleNext]_vars

\* One call of build_filter with a crop and an image on the grid
CropInit ==
    /\ SplitIdle
    /\ RenderIdle
    /\ settings = None /\ files = None
    /\ use_gpu = FALSE /\ gpu_available = <<FALSE, FALSE>> /\ grain_exists = FALSE
    /\ total_duration = 0
    /\ subtitle_style = None /\ cmd = None
    /\ crop_settings \in {None} \cup { Some(c) : c \in CropInputs }
    /\ image_size \in {None} \cup ImageSizes
    /\ base_filter = None
    /\ buildPc = "input"

CropNext == BuildFilter /\ UNCHANGED <<splitVars, renderVars>>

CropSpec == CropInit /\ [][CropNext]_vars

----------------------------------------------------------------------------
\* The stages of a job, by its position in assemble_video
TranscribePcs == {"t_entry", "l_check", "l_gpu", "l_gpu_dev", "l_cpu",
                  "l_cpu_dev", "t_infer", "t_run", "t_except", "t_fb_flag",
                  "t_fb_model", "t_ok", "t_raise"}

StageOf(p) ==
    CASE p \in {"idle", "queued"} -> "Queued"
      [] p \in {"validating", "probing", "report5"} -> "Transcribing"
      [] p \in TranscribePcs -> "Transcribing"
      [] p = "segmenting" -> "Segmenting"
      [] p \in {"report20", "assembling"} -> "Assembling"
      [] p \in {"encoding", "report_line", "report99", "cleanup", "check",
                "return"} -> "Encoding"
      [] p = "complete" -> "Complete"
      [] p = "failed" -> "Failed"

StageRank(stage) ==
    CASE stage = "Queued" -> 0
      [] stage = "Transcribing" -> 1
      [] stage = "Segmenting" -> 2
      [] stage = "Assembling" -> 3
      [] stage = "Encoding" -> 4
      [] stage \in {"Complete", "Failed"} -> 5

----------------------------------------------------------------------------
\* Properties

RECURSIVE ChunkWords(_)
ChunkWords(chunks) ==
    IF chunks = <<>> THEN <<>>
    ELSE Head(chunks).text.words \o ChunkWords(Tail(chunks))

\* C1: the words of the chunks produced for a segment, taken in output
\* order, are exactly the words of the segment: none added, dropped,
\* duplicated or reordered, the trailing remainder included.
C1_WordsPreserved ==
    splitPc = "done" => ChunkWords(result) = captions[1].text.words

\* A segment split in three whose last chunk is a one-word remainder
C1_Witness ==
    /\ splitPc = "done"
    /\ Len(result) = 3
    /\ Len(result[3].text.words) = 1
    /\ Len(captions[1].text.words) = MaxSegWords

\* C2: the n chunks of a segment [start, end] start at start, end at end,
\* each ends where the next starts, and each lasts (end - start)/n.
C2_ContiguousEqualSpans ==
    splitPc = "done" =>
        LET c == captions[1]
            n == Len(result)
        IN  /\ n >= 1
            /\ result[1].start = c.start
            /\ result[n].end = c.end
            /\ \A i \in 1..(n - 1) : result[i].end = result[i + 1].start
            /\ \A i \in 1..n :
                   FSub(result[i].end, result[i].start)
                      = FDivInt(FSub(c.end, c.start), n)

\* The part of C2 that holds of the rounded times: the first chunk starts
\* at start and each chunk ends where the next starts
ChunksContiguous ==
    splitPc = "done" =>
        /\ result[1].start = captions[1].start
        /\ \A i \in 1..(Len(result) - 1) : result[i].end = result[i + 1].start
        /\ \A i \in 1..Len(result) : FLess(result[i].start, result[i].end)

\* C3 as stated: every chunk has at most max_words words and at most
\* max_chars characters.
C3_EveryChunkWithinBothBounds ==
    splitPc = "done" =>
        \A i \in 1..Len(result) :
            /\ Len(result[i].text.words) <= max_words
            /\ JoinLen(result[i].text.words) <= max_chars

\* C3 amended: every chunk has at most max(max_words, 1) words, and every
\* chunk of two or more words has at most max_chars characters; only a
\* chunk of a single word may be longer than max_chars.
C3_BoundsExceptSingleWord ==
    splitPc = "done" =>
        \A i \in 1..Len(result) :
            /\ Len(result[i].text.words) <= Max(max_words, 1)
            /\ Len(result[i].text.words) >= 2 =>
                   JoinLen(result[i].text.words) <= max_chars

\* A split with a chunk of several words within max_chars next to a chunk
\* of one word that is longer than max_chars
C3_Witness ==
    /\ splitPc = "done"
    /\ \E i \in 1..Len(result) :
           /\ Len(result[i].text.words) = 1
           /\ JoinLen(result[i].text.words) > max_chars
    /\ \E i \in 1..Len(result) : Len(result[i].text.words) >= 2

\* C4: within one transcribe call of any job of a batch there is at most
\* one inference attempt on cuda and at most one on cpu; where cuda is
\* available a cpu attempt is made only after a cuda load or inference of
\* the handler has failed, and when both were attempted the cuda one failed
\* first; after a failed cpu inference the call raises without a further
\* attempt.
C4_OneShotFallback ==
    \A j \in Jobs :
        /\ gpuAttempts[j] <= 1
        /\ cpuAttempts[j] <= 1
        /\ (cpuAttempts[j] > 0 /\ cuda_available) =>
              gpuFailedEver[ProcessorOf(j)]
        /\ (gpuAttempts[j] > 0 /\ cpuAttempts[j] > 0) => lastFail[j] # "None"
        /\ lastFail[j] = "cpu" =>
              \/ pc[j] = "t_raise"
              \/ pc[j] = "t_except" /\ ~CanFallBack(ProcessorOf(j))

\* The one-shot fallback of a handler that has one caller at a time
\* (HandlerSpec): the statement of C4 for the calls of that caller.
SingleCallerOneShotFallback ==
    /\ gpuAttempts[1] <= 1
    /\ cpuAttempts[1] <= 1
    /\ (cpuAttempts[1] > 0 /\ cuda_available) => gpuFailedEver[1]
    /\ (gpuAttempts[1] > 0 /\ cpuAttempts[1] > 0) => lastFail[1] # "None"
    /\ lastFail[1] = "cpu" =>
          \/ pc[1] \in {"t_raise", "idle"}
          \/ pc[1] = "t_except" /\ ~CanFallBack(1)

\* C5: once a cuda load or inference of a handler has failed, failed_gpu is
\* true and no load or inference of that handler runs on cuda any more.
C5_GpuDisabledForever ==
    gpuFailedEver[1] =>
        /\ failed_gpu[1]
        /\ pc[1] # "l_gpu"
        /\ ~(pc[1] = "t_run" /\ inferOn[1] = "cuda")

\* C6: the transcription of a job raises only after a cpu load or a cpu
\* inference made by that job has failed.
C6_FailureOnlyAfterCpuFailure ==
    \A j \in Jobs : pc[j] = "t_raise" => cpuFailed[j]

\* C7: the stage of a job never moves backwards, Complete and Failed are
\* never left, no job is started twice, and when process_queue returns
\* every folder has been started exactly once.
C7_StrictlyForward ==
    [][/\ \A j \in Threads :
            pc'[j] # pc[j] =>
                /\ StageRank(StageOf(pc'[j])) >= StageRank(StageOf(pc[j]))
                /\ pc[j] \notin {"complete", "failed"}
       /\ \A j \in Threads : starts'[j] <= 1
       /\ returned' => \A j \in Jobs : starts'[j] = 1]_vars

\* A returned batch of three with a completed and a failed job
C7_Witness ==
    /\ returned
    /\ Len(video_folders) = MaxFolders
    /\ \E j \in Jobs : pc[j] = "complete"
    /\ \E j \in Jobs : pc[j] = "failed" /\ starts[j] = 1

\* The value of a line of the encoder is given to the callback in this step
LineReported(j) == pc[j] = "report_line" /\ reports'[j] # reports[j]

\* C8 as stated: the reported values never decrease, and a line whose
\* value is not greater than the last reported value is not reported.
C8_SuppressedUnlessGreater ==
    [][/\ reported'[1] >= reported[1]
       /\ LineReported(1) => reported'[1] > reported[1]]_vars

\* C8 amended: the reported values never decrease; a line is reported only
\* when its value is greater than last_update_progress, the last value
\* reported from a line (0 before the first), so that it exceeds the last
\* reported value except that the first reported line may repeat the 20
\* reported when assembly began.
C8_NonDecreasing ==
    [][/\ reported'[1] >= reported[1]
       /\ (pc[1] = "encoding" /\ linesRead'[1] > linesRead[1]) =>
             (pc'[1] = "report_line" <=>
                 (has_callback[1] /\ progress'[1] > last_update_progress[1]))
       /\ LineReported(1) =>
             /\ reported'[1] = last_update_progress[1]
             /\ \/ reported'[1] > reported[1]
                \/ reported[1] = 20 /\ reports[1] = 2
                      /\ reported'[1] = 20]_vars

\* A marker with a lower value than the reported one was read and dropped
C8_Witness ==
    /\ pc[1] = "encoding"
    /\ progress[1] >= 20
    /\ progress[1] < reported[1]
    /\ reports[1] = 3

\* C9: a non-zero exit gives (False, "") and Failed, a zero exit gives
\* (True, <folder>/<folder name>.mp4) and Complete, and in every result
\* success is false exactly when the output path is empty.
C9_ExitMapsToResult ==
    \A j \in Jobs :
        /\ job_result[j] # <<>> =>
              (job_result[j][1] = FALSE <=> job_result[j][2] = <<>>)
        /\ (pc[j] \in {"complete", "failed"} /\ returncode[j] = 1) =>
              /\ pc[j] = "failed"
              /\ job_result[j] = <<FALSE, <<>> >>
        /\ (pc[j] \in {"complete", "failed"} /\ returncode[j] = 0) =>
              /\ pc[j] = "complete"
              /\ job_result[j] =
                    <<TRUE, <<video_folders[j], video_folders[j]>> >>

\* In every result success is false exactly when the output path is empty,
\* and a job whose encoder exited with a non-zero code ends Failed
FailureHasNoPath ==
    \A j \in Jobs :
        /\ job_result[j] # <<>> =>
              (job_result[j][1] = FALSE <=> job_result[j][2] = <<>>)
        /\ (pc[j] \in {"complete", "failed"} /\ returncode[j] = 1) =>
              /\ pc[j] = "failed"
              /\ job_result[j] = <<FALSE, <<>> >>
        /\ pc[j] = "complete" =>
              /\ returncode[j] = 0
              /\ job_result[j] =
                    <<TRUE, <<video_folders[j], video_folders[j]>> >>

\* C10: once the encoder has exited, whatever its code, the subtitle file
\* is removed next, before the result is returned and before 100 is
\* reported.
C10_SrtRemovedAfterExit ==
    \A j \in Jobs :
        returncode[j] # -1 =>
            /\ pc[j] \in {"report99", "cleanup"} \/ ~srt[video_folders[j]]
            /\ (job_result[j] # <<>> \/ reported[j] = 100) =>
                  ~srt[video_folders[j]]

\* C11: when a job has ended in Failed, the subtitle file it wrote no
\* longer exists, whichever step failed after the file was written.
C11_SrtRemovedOnFailure ==
    \A j \in Jobs : pc[j] = "failed" => ~srt[FolderOf(j)]

\* When process_queue has returned, results holds one entry per submitted
\* folder, and the entry of a folder is the result of its job.
ResultPerFolder ==
    returned =>
        /\ Len(results) = Len(video_folders)
        /\ \A j \in Jobs :
              /\ job_result[j] # <<>>
              /\ Cardinality({k \in 1..Len(results) :
                                 results[k][1] = FolderOf(j)}) = 1
              /\ \E k \in 1..Len(results) : results[k] = FutureResult(j)

\* The transcription of a job raises only after a load or an inference
\* made by that job itself has failed.
OwnFailureOnly ==
    \A j \in Jobs :
        pc[j] = "t_raise" => (lastFail[j] # "None" \/ cpuFailed[j])

\* C12: process_queue returns exactly one (folder, success, output_path)
\* per submitted folder whatever jobs fail, and a job none of whose own
\* steps failed is not made to fail by the failure of another job.
C12_BatchNeverAborts == ResultPerFolder /\ OwnFailureOnly

----------------------------------------------------------------------------
\* Properties of the command construction

\* The effect list build_command reads from the settings
SelectedEffects == MotionEffects(settings)

OnlyStatic(effects) == \A k \in 1..Len(effects) : effects[k] = "Static"

\* The parts of the filter graph of a kind, in graph order
PartsOfKind(c, kinds) ==
    SelectSeq(c.filter_parts, LAMBDA p : p.kind \in kinds)

EffectStage(c) == PartsOfKind(c, {"motion", "grain", "overlay"})

OverlayInputs(c) == SelectSeq(c.inputs, LAMBDA i : i.kind = "overlay")

\* The part that burns the subtitles in
SubtitlePart(c) == PartsOfKind(c, {"subtitles"})[1]

\* C13: when the effect list is empty or holds only "Static",
\* build_video_level_filters returns None and the command has no effect
\* stage and no overlay input, and the subtitle burn-in reads [vconcat].
C13_StaticHasNoEffectStage ==
    (buildPc = "done" /\ OnlyStatic(SelectedEffects)) =>
        /\ build_video_level_filters(SelectedEffects, grain_exists) = None
        /\ EffectStage(cmd) = <<>>
        /\ OverlayInputs(cmd) = <<>>
        /\ SubtitlePart(cmd).ins = <<Label("vconcat", 0)>>

C13_Witness ==
    /\ buildPc = "done"
    /\ SelectedEffects = <<"Static">>
    /\ grain_exists
    /\ SubtitlePart(cmd).ins = <<Label("vconcat", 0)>>

Selected(effect) == \E k \in 1..Len(SelectedEffects) : SelectedEffects[k] = effect

\* C14: with Noise selected (grain asset present) together with Tilt or
\* Dynamic Tilt, the graph holds the transforms, applied to the concatenated
\* stream, and then the grain overlay, composited over the transformed
\* stream as the last part before the subtitles.
C14_TransformsThenGrain ==
    (/\ buildPc = "done"
     /\ grain_exists
     /\ Selected("Noise")
     /\ Selected("Tilt") \/ Selected("Dynamic Tilt")) =>
        \E i, j \in 1..Len(cmd.filter_parts) :
            LET motion == cmd.filter_parts[i]
                overlay == cmd.filter_parts[j]
            IN  /\ i < j
                /\ motion.kind = "motion"
                /\ motion.ins = <<Label("vconcat", 0)>>
                /\ overlay.kind = "overlay"
                /\ \E k \in 1..Len(overlay.ins) : overlay.ins[k] = motion.out
                /\ SubtitlePart(cmd).ins = <<overlay.out>>

\* The input at a 0-based index of the command
InputAt(c, index) == c.inputs[index + 1]

\* C15: the inputs are one per image in order, each trimmed to
\* duration / imageCount, then exactly one audio input at index imageCount,
\* the index the audio map uses, then one overlay input at index
\* imageCount + 1 if and only if Noise is selected and the grain asset is
\* present.
C15_InputOrdering ==
    buildPc = "done" =>
        LET n == Len(files.images)
            withOverlay == Selected("Noise") /\ grain_exists
        IN  /\ Len(cmd.inputs) = n + 1 + (IF withOverlay THEN 1 ELSE 0)
            /\ \A i \in 1..n :
                   /\ cmd.inputs[i].kind = "image"
                   /\ cmd.inputs[i].path = files.images[i]
                   /\ cmd.inputs[i].t = FDivInt(FInt(total_duration), n)
            /\ InputAt(cmd, n).kind = "audio"
            /\ cmd.map_audio = n
            /\ withOverlay => InputAt(cmd, n + 1).kind = "overlay"

\* The part of C15 about the images and the audio
ImagesThenAudio ==
    buildPc = "done" =>
        LET n == Len(files.images)
        IN  /\ \A i \in 1..n :
                   /\ cmd.inputs[i].kind = "image"
                   /\ cmd.inputs[i].path = files.images[i]
                   /\ cmd.inputs[i].t = FDivInt(FInt(total_duration), n)
            /\ InputAt(cmd, n).kind = "audio"
            /\ cmd.map_audio = n
            /\ Len(OverlayInputs(cmd)) = 0 => Len(cmd.inputs) = n + 1

\* The command names a hardware encoder
HardwareEncoder(c) == c.encoder = "h264_nvenc"

\* C16: the command requests hardware acceleration only when use_gpu is
\* set, the accelerator is available and no manual crop is configured; with
\* a manual crop the command requests no hardware acceleration at all.
C16_NoHardwareWithCrop ==
    buildPc = "done" =>
        /\ (cmd.hwaccel \/ HardwareEncoder(cmd)) =>
               /\ use_gpu /\ settings.crop_settings = None
               /\ gpu_available[1] \/ gpu_available[2]
        /\ settings.crop_settings # None =>
               (~cmd.hwaccel /\ ~HardwareEncoder(cmd))

\* C16 as the code has it: hardware-accelerated decoding is requested
\* exactly when use_gpu is set, the accelerator was found available by the
\* check made for the decoding and no manual crop is configured; the
\* hardware encoder is selected exactly when use_gpu is set and the
\* accelerator was found available by the check made for the encoder, crop
\* or not.
C16_NoHardwareDecodeWithCrop ==
    buildPc = "done" =>
        /\ cmd.hwaccel <=>
               (use_gpu /\ gpu_available[1] /\ settings.crop_settings = None)
        /\ HardwareEncoder(cmd) <=> (use_gpu /\ gpu_available[2])

C16_Witness ==
    /\ buildPc = "done"
    /\ use_gpu /\ gpu_available = <<TRUE, TRUE>>
    /\ settings.crop_settings # None
    /\ ~cmd.hwaccel
    /\ HardwareEncoder(cmd)

----------------------------------------------------------------------------
\* Properties of the crop validation

\* build_filter has returned for a crop and an image that could be opened
CropCall ==
    buildPc = "done" /\ crop_settings # None /\ image_size # None

Requested == Value(crop_settings)

Emitted == Value(base_filter)

\* The requested region lies fully within the image
InBounds(c, size) ==
    /\ c.x >= 0 /\ c.y >= 0
    /\ c.x + c.width <= size[1] /\ c.y + c.height <= size[2]

\* The fragment is an explicit crop of exactly the region c
ExactCrop(f, c) ==
    /\ f.kind = "crop"
    /\ f.x = c.x /\ f.y = c.y /\ f.width = c.width /\ f.height = c.height

\* C17 as stated: for every crop region with valid coordinates that lies
\* fully within the image, the emitted fragment is a crop of exactly the
\* requested x, y, width and height.
C17_ValidCropUnaltered ==
    (/\ CropCall
     /\ ~CoordinatesInvalid(Requested)
     /\ InBounds(Requested, image_size)) => ExactCrop(Emitted, Requested)

\* C17, amended: for every crop region with valid coordinates that lies
\* fully within the image and is at least 100x100, the emitted fragment is
\* a crop of exactly the requested x, y, width and height.
C17_UsableCropUnaltered ==
    (/\ CropCall
     /\ ~CoordinatesInvalid(Requested)
     /\ InBounds(Requested, image_size)
     /\ Requested.width >= MinCropSize
     /\ Requested.height >= MinCropSize) => ExactCrop(Emitted, Requested)

C17_Witness ==
    /\ CropCall
    /\ ~CoordinatesInvalid(Requested)
    /\ Requested.x > 0 /\ Requested.y > 0
    /\ Requested.x + Requested.width < image_size[1]
    /\ Requested.y + Requested.height < image_size[2]
    /\ Requested.width >= MinCropSize
    /\ Requested.height >= MinCropSize
    /\ ExactCrop(Emitted, Requested)

\* The requested region with origin and extent clamped to the image
ClampedRegion(c, size) ==
    LET x0 == Max(0, Min(c.x, size[1]))
        y0 == Max(0, Min(c.y, size[2]))
        x1 == Max(x0, Min(c.x + c.width, size[1]))
        y1 == Max(y0, Min(c.y + c.height, size[2]))
    IN  [x |-> x0, y |-> y0, width |-> x1 - x0, height |-> y1 - y0]

TooSmall(c) == c.width < MinCropSize \/ c.height < MinCropSize

\* C18: an out-of-bounds origin or extent is clamped to the image; the
\* auto-crop fragment is emitted exactly when the clamped region is smaller
\* than 100x100, and in every other case an explicit crop fragment is
\* emitted whose rectangle lies inside the image and is at least 100x100.
C18_ClampThenRejectSmall ==
    CropCall =>
        LET clamped == ClampedRegion(Requested, image_size)
        IN  /\ Emitted.kind = "auto" <=> TooSmall(clamped)
            /\ Emitted.kind # "auto" =>
                   /\ Emitted.kind = "crop"
                   /\ InBounds(Emitted, image_size)
                   /\ ~TooSmall(Emitted)

\* The part of C18 that the code honours: an emitted explicit crop lies
\* inside the image and is at least 100x100; a region whose origin is
\* inside the image is clamped and rejected exactly when too small.
EmittedCropUsable ==
    CropCall =>
        /\ Emitted.kind = "crop" =>
               (InBounds(Emitted, image_size) /\ ~TooSmall(Emitted))
        /\ (Requested.x >= 0 /\ Requested.y >= 0) =>
               LET clamped == ClampedRegion(Requested, image_size)
               IN  IF TooSmall(clamped) THEN Emitted.kind = "auto"
                   ELSE ExactCrop(Emitted, clamped)

----------------------------------------------------------------------------
\* Properties of the subtitle style

\* The style in the subtitles part of the command
CommandStyle(c) == SubtitlePart(c).body[1]

\* The output width the job is configured with
OutputWidth == ConfigResolution(settings)[1]

\* C19: for each of 720p, 1080p, 2K and 4K and every caption anchor, the
\* MarginL and MarginR of the style in the command are each at least 10% of
\* the job's output width.
C19_MarginFloor ==
    buildPc = "done" =>
        /\ 100 * CommandStyle(cmd).MarginL
               >= MINIMUM_SIDE_MARGIN_PERCENT * OutputWidth
        /\ 100 * CommandStyle(cmd).MarginR
               >= MINIMUM_SIDE_MARGIN_PERCENT * OutputWidth

\* The margins are 10% of the width the style was built for, which is the
\* default width whatever the job's resolution
MarginFloorOfDefaultWidth ==
    buildPc = "done" =>
        /\ CommandStyle(cmd).MarginL
               = (DefaultResolution[1] * MINIMUM_SIDE_MARGIN_PERCENT) \div 100
        /\ CommandStyle(cmd).MarginR = CommandStyle(cmd).MarginL

\* A caption at 0.9 of 1080 lines: (1.0 - 0.9) * 1080 is 107.99999999999997
\* in floats, so MarginV is 107; at 0.51 the margin is int(-10.8) = -10
MarginVTruncates ==
    /\ VerticalPlacement(90, 1080).margin_v = 107
    /\ VerticalPlacement(51, 1080).margin_v = -10

\* The style has a background box or an outline of non-zero width
HasTreatment(style) == style.BorderStyle = 4 \/ style.Outline > 0

\* C20: for every settings snapshot, has_background false together with
\* has_outline false included, the style built has a background box
\* (BorderStyle 4) or an outline of non-zero width.
C20_NeverNeitherTreatment ==
    (buildPc = "done" /\ settings # None) => HasTreatment(subtitle_style)

\* What the code gives: with 'has_outline' absent the outline defaults to
\* the opposite of the background, so one of the two is on
DefaultOutlineOpposesBackground ==
    (/\ buildPc = "done" /\ settings # None
     /\ "has_outline" \notin settings.keys
     /\ Get(settings, "outline_width", 3) > 0) => HasTreatment(subtitle_style)

----------------------------------------------------------------------------
\* Properties of the batch, continued

\* C21: in a batch over pairwise distinct folders the subtitle file of a
\* folder is written and removed only by a step of the job of that folder,
\* under every interleaving of the workers.
C21_SrtScopedToJob ==
    [][\A f \in Folders :
          srt'[f] # srt[f] =>
              \E j \in Jobs :
                  /\ video_folders[j] = f
                  /\ \A i \in Jobs : video_folders[i] = f => i = j
                  /\ pc[j] \in {"segmenting", "cleanup"}
                  /\ pc'[j] # pc[j]]_vars

\* Two jobs run at once and the file of each exists
C21_Witness ==
    /\ Len(video_folders) >= 2
    /\ pc[1] = "encoding" /\ pc[2] = "encoding"
    /\ srt[video_folders[1]] /\ srt[video_folders[2]]

----------------------------------------------------------------------------
\* Properties of the segmentation, continued

\* The segment was over a limit and went through the splitting loop
WasSplit == splitPc = "done" /\ ~FitsNicely(captions[1], max_words, max_chars)

\* len(current_chunk) when the loop reached the q-th word of chunk k: the
\* words before it in its chunk, or the whole chunk closed just before it
Pending(k, q) ==
    IF q > 1 THEN q - 1
    ELSE IF k > 1 THEN Len(result[k - 1].text.words)
    ELSE 0

\* The loop met a punctuated word as the q-th word of chunk k while the
\* pending chunk held at least max_words/2 words
SoftBreakAt(k, q) ==
    /\ result[k].text.words[q].punct
    /\ Pending(k, q) >= 1
    /\ Pending(k, q) >= max_words \div 2

\* C22: when the loop meets a word ending in , . ! ? ; : while the pending
\* chunk holds at least max_words/2 words, a break is made and the chunk
\* closed by it ends at that punctuated word.
C22_SoftBreakEndsAtPunctuation ==
    WasSplit =>
        \A k \in 1..Len(result) :
            \A q \in 1..Len(result[k].text.words) :
                SoftBreakAt(k, q) => q = Len(result[k].text.words)

\* What the loop does: the break is made before the punctuated word, which
\* becomes the first word of the next chunk
SoftBreakBeforePunctuation ==
    WasSplit =>
        \A k \in 1..Len(result) :
            \A q \in 1..Len(result[k].text.words) :
                SoftBreakAt(k, q) => (q = 1 /\ k > 1)

\* The elements of a list of captions whose text has no word
Wordless(caps) == SelectSeq(caps, LAMBDA c : c.text.words = <<>>)

\* A word longer than max_chars is the only word of its chunk
LongWordAlone ==
    \A k \in 1..Len(result) :
        \A q \in 1..Len(result[k].text.words) :
            result[k].text.words[q].len > max_chars =>
                Len(result[k].text.words) = 1

\* The call followed through its loops returns what the function computed
\* at once returns; the elements without words of the returned list are
\* the segments without words of the input, unchanged and in their order,
\* so no chunk built from the words of a segment is empty; and a word
\* longer than max_chars is a chunk of its own
ChunksWhole ==
    /\ result = split_into_shorter_segments(captions, max_words, max_chars)
    /\ Wordless(result) = Wordless(captions)
    /\ LongWordAlone

\* C23 as stated: the call returns for every list of captions and every
\* (max_words, max_chars), max_words 0 and 1 and words longer than
\* max_chars included; in the returned list a word longer than max_chars is
\* a chunk of its own and no chunk is empty.
C23_ReturnsNoEmptyChunk ==
    /\ <>(splitPc = "done")
    /\ [](splitPc = "done" =>
            /\ LongWordAlone
            /\ \A k \in 1..Len(result) : result[k].text.words # <<>>)

\* C23, amended: the call returns for every list of captions and every
\* (max_words, max_chars), max_words 0 and 1 and words longer than
\* max_chars included; in the returned list a word longer than max_chars is
\* a chunk of its own, and the only elements without words are the
\* segments of the input that have no word, which are returned unchanged.
C23_ReturnsWholeChunks ==
    /\ <>(splitPc = "done")
    /\ [](splitPc = "done" => ChunksWhole)

\* With max_words 0 or 1, a list of a segment without words and a segment
\* of two words has returned the first unchanged and the two words as two
\* chunks, one of them a single word longer than max_chars
C23_Witness ==
    /\ splitPc = "done"
    /\ max_words <= 1
    /\ Len(captions) = 2
    /\ captions[1].text.words = <<>>
    /\ Len(result) = 3
    /\ result[1] = captions[1]
    /\ \E k \in 2..3 :
           /\ Len(result[k].text.words) = 1
           /\ result[k].text.words[1].len > max_chars

----------------------------------------------------------------------------
\* Properties of the command construction, continued

\* The list without the names that are not supported
KnownOnly(effects) == SelectSeq(effects, LAMBDA e : e \in SUPPORTED_EFFECTS)

\* The settings with the list l under 'motion_effects'
WithEffects(s, l) ==
    [s EXCEPT !.keys = s.keys \cup {"motion_effects"},
              !.motion_effects = [type |-> "list", value |-> l]]

\* The command that build_command returns for the same call with the
\* unknown names taken out of the effect list
CommandOfKnownOnly ==
    build_command(WithEffects(settings, KnownOnly(SelectedEffects)), files,
                  total_duration, use_gpu, gpu_available, grain_exists)

\* What holds of unknown names: build_video_level_filters returns what it
\* returns for the list without them, None when every name is unknown,
\* and build_command returns a command with the inputs and the filter
\* graph of the list without them
UnknownNamesLeaveGraph ==
    buildPc = "done" =>
        /\ build_video_level_filters(SelectedEffects, grain_exists)
             = build_video_level_filters(KnownOnly(SelectedEffects),
                                         grain_exists)
        /\ KnownOnly(SelectedEffects) = <<>> =>
               build_video_level_filters(SelectedEffects, grain_exists) = None
        /\ ~cmd.raised
        /\ cmd.inputs = CommandOfKnownOnly.inputs
        /\ cmd.filter_parts = CommandOfKnownOnly.filter_parts

\* An unknown name next to Tilt: the plan is the one of Tilt alone
UnknownNextToTilt ==
    /\ buildPc = "done"
    /\ SelectedEffects = <<"Unknown", "Tilt">>
    /\ build_video_level_filters(SelectedEffects, grain_exists) = <<"Tilt">>
    /\ Len(EffectStage(cmd)) = 1

\* C24: unknown effect names are not fatal and have no effect: for every
\* effect list build_video_level_filters returns what it returns for the
\* list without the unknown names, and build_command returns the command
\* that it returns for the list without them.
C24_UnknownNamesHaveNoEffect ==
    buildPc = "done" =>
        /\ UnknownNamesLeaveGraph
        /\ cmd = CommandOfKnownOnly

\* The options that an unknown name changes: with the hardware encoder,
\* a list of unknown and 'Static' names gets the bitrates of a video with
\* motion, the list without the unknown names those of a static video
UnknownNameRaisesBitrate ==
    /\ buildPc = "done"
    /\ KnownOnly(SelectedEffects) # SelectedEffects
    /\ ~HasMotion(KnownOnly(SelectedEffects))
    /\ cmd.encoder = "h264_nvenc"
    /\ cmd.bitrate = Some(Bitrates[FPS_STANDARD][TRUE])
    /\ CommandOfKnownOnly.bitrate = Some(Bitrates[FPS_STANDARD][FALSE])
    /\ Bitrates[FPS_STANDARD][TRUE] = [target |-> 3, max |-> 3]
    /\ Bitrates[FPS_STANDARD][FALSE] = [target |-> 1, max |-> 2]

\* Everything but the bitrate options is the same
OnlyBitrateDiffers ==
    buildPc = "done" =>
        [cmd EXCEPT !.bitrate = None]
            = [CommandOfKnownOnly EXCEPT !.bitrate = None]

----------------------------------------------------------------------------
\* Properties of the progress reports

\* The step gives a value to the callback of job j
Reports(j) == reports'[j] # reports[j]

\* A value reported before the encoder was started is at most 20; a value
\* reported from a line of the encoder, or when it has exited, lies in
\* 20..99; 100 is reported only after the encoder exited with code zero and
\* the subtitle file was removed
ReportsInBands ==
    [][\A j \in Jobs :
          Reports(j) =>
            /\ StageRank(StageOf(pc[j])) < StageRank("Encoding") =>
                   reported'[j] <= 20
            /\ pc[j] \in {"report_line", "report99"} =>
                   (reported'[j] >= 20 /\ reported'[j] <= 99)
            /\ reported'[j] = 100 =>
                   /\ pc[j] = "check"
                   /\ returncode[j] = 0
                   /\ ~srt[video_folders[j]]]_vars

\* The last value of a job that ended Complete is 100
CompleteReports100 ==
    \A j \in Jobs :
        (pc[j] = "complete" /\ has_callback[j]) => reported[j] = 100

\* A job that ended Failed has not reported 100
FailedNever100 == \A j \in Jobs : pc[j] = "failed" => reported[j] # 100

\* C25: a value reported before the encoder was started is at most 20; a
\* value reported while the encoder runs lies in 20..99; 100 is reported
\* only after the encoder exited with code zero and the subtitle file was
\* removed; a job that ended Failed has not reported 100 and the last value
\* of a job that ended Complete is 100.
C25_ProgressBands ==
    ReportsInBands /\ [](FailedNever100 /\ CompleteReports100)

----------------------------------------------------------------------------
\* The text is longer than the line width and is two or more words with
\* single spaces between them
NeedsWrap ==
    /\ TextLen(wrap_text) > max_line_chars
    /\ Len(wrap_text.words) >= 2
    /\ wrap_text.extra = 0

\* C26: wrap_caption_text inserts at most one line break; a text no longer
\* than max_line_chars, or of a single word, is returned unchanged; a longer
\* text of two or more single-space-separated words comes back as exactly
\* two non-empty lines, broken between two words, with the words in their
\* original order (the final "return text" is not reached for it).
C26_WrapBreaksOnce ==
    wrapPc = "done" =>
        /\ Len(wrapped) \in {1, 2}
        /\ (TextLen(wrap_text) <= max_line_chars \/ Len(wrap_text.words) <= 1)
              => wrapped = <<wrap_text>>
        /\ NeedsWrap =>
              /\ Len(wrapped) = 2
              /\ wrapped[1].words # <<>> /\ wrapped[2].words # <<>>
              /\ wrapped[1].extra = 0 /\ wrapped[2].extra = 0
              /\ wrapped[1].words \o wrapped[2].words = wrap_text.words

C26_Witness ==
    /\ wrapPc = "done" /\ NeedsWrap
    /\ Len(wrap_text.words) = 3
    /\ Len(wrapped) = 2
    /\ Len(wrapped[1].words) = 2 /\ Len(wrapped[2].words) = 1

----------------------------------------------------------------------------
\* The positions of the parts of the graph that produce the label
ProducersOf(c, label) ==
    { m \in 1..Len(c.filter_parts) : c.filter_parts[m].out = label }

\* The positions of the parts of the graph that consume the label
ConsumersOf(c, label) ==
    { m \in 1..Len(c.filter_parts) :
        \E q \in 1..Len(c.filter_parts[m].ins) :
            c.filter_parts[m].ins[q] = label }

\* The label is the video stream of one of the command's inputs
IsInputStream(c, label) ==
    label[1] = "input" /\ label[2] \in 0..(Len(c.inputs) - 1)

\* C27: every filter graph build_command builds is one well-formed chain:
\* the concatenation consumes exactly one prepared stream per image, in
\* image order; every label a part consumes is the stream of an input or
\* is produced by exactly one earlier part (and is consumed once); the
\* effect parts come after the concatenation; the subtitle part is last and
\* produces [vout], the video stream that is mapped.
C27_GraphIsOneChain ==
    buildPc = "done" =>
        LET parts == cmd.filter_parts
            n == Len(files.images)
        IN  /\ Len(parts) >= n + 2
            /\ \A i \in 1..n :
                  /\ parts[i].kind = "image"
                  /\ parts[i].ins = <<Label("input", i - 1)>>
                  /\ cmd.inputs[i].kind = "image"
                  /\ cmd.inputs[i].path = files.images[i]
            /\ parts[n + 1].kind = "concat"
            /\ parts[n + 1].ins = [i \in 1..n |-> parts[i].out]
            /\ Len(PartsOfKind(cmd, {"concat"})) = 1
            /\ \A k \in 1..Len(parts) :
                  /\ \A q \in 1..Len(parts[k].ins) :
                        LET label == parts[k].ins[q]
                        IN  \/ IsInputStream(cmd, label)
                            \/ /\ Cardinality(ProducersOf(cmd, label)) = 1
                               /\ \A m \in ProducersOf(cmd, label) : m < k
                               /\ ConsumersOf(cmd, label) = {k}
                  /\ parts[k].kind \in {"motion", "grain", "overlay"}
                        => k > n + 1
                  /\ parts[k].kind = "subtitles" => k = Len(parts)
            /\ parts[Len(parts)].kind = "subtitles"
            /\ parts[Len(parts)].out = Label("vout", 0)
            /\ ProducersOf(cmd, Label("vout", 0)) = {Len(parts)}
            /\ cmd.map_video = Label("vout", 0)

C27_Witness ==
    /\ buildPc = "done"
    /\ Len(files.images) = 2
    /\ Len(cmd.filter_parts) = 5
    /\ cmd.filter_parts[3].ins = <<Label("v", 0), Label("v", 1)>>
    /\ cmd.filter_parts[4].kind = "motion"
    /\ cmd.filter_parts[5].ins = <<Label("vmotion", 0)>>

----------------------------------------------------------------------------
\* C28: job i uses processor i mod N of the pool, and no two running jobs
\* use the same processor instance: a job assigned to a processor starts
\* only after the previous job assigned to that processor has reached
\* Complete or Failed.
C28_ProcessorNeverShared ==
    \A i, j \in Jobs :
        (i < j /\ ProcessorOf(i) = ProcessorOf(j))
            => (pc[j] = "queued" \/ pc[i] \in {"complete", "failed"})

----------------------------------------------------------------------------
Terminal(j) == pc[j] \in {"complete", "failed"}

\* C29: when every transcription call and every encoder process returns,
\* every submitted job eventually reaches Complete or Failed, no job stays
\* Queued forever, and process_queue returns, and only after all submitted
\* jobs are terminal.
C29_EveryJobEnds ==
    /\ \A j \in Threads : (pc[j] = "queued") ~> Terminal(j)
    /\ <>returned
    /\ [](returned => \A j \in Jobs : Terminal(j))

C29_Witness ==
    /\ returned
    /\ Len(video_folders) = MaxQueue /\ max_workers < MaxQueue
    /\ \A j \in Jobs : Terminal(j)
    /\ pc[1] = "failed" /\ pc[MaxQueue] = "complete"

----------------------------------------------------------------------------
\* C30: every per-image fragment of a built command scales and crops to
\* the resolution held in VideoConfig.resolution: the auto-crop fragment's
\* scale and crop size, and the crop-then-scale fragment's scale, equal the
\* resolution of the preset named by the settings.
C30_FragmentsAtConfiguredResolution ==
    buildPc = "done" =>
        \A k \in 1..Len(files.images) :
            LET fragment == cmd.filter_parts[k].body[1]
                resolution == ConfigResolution(settings)
            IN  /\ fragment.scale = resolution
                /\ fragment.kind = "auto" =>
                      /\ fragment.width = resolution[1]
                      /\ fragment.height = resolution[2]

====
